---------------------------- MODULE Spec2Model ----------------------------
(***************************************************************************)
(* A model of the Gobstones language core (foones/gbs):                    *)
(*   - the execution harness of gui/app.py (GUI caller, worker processes,  *)
(*     the two queues between them)             -- specification Spec      *)
(*   - one worker process handed any first message                         *)
(*                                              -- specification SpecWorker*)
(*   - the board builtins of lang/gbs_builtins.py -- specification SpecBoard*)
(*   - the bytecode of repeatWith produced by lang/gbs_compiler.py, run on *)
(*     the stack machine                        -- specification SpecVM    *)
(*   - the bytecode of and/or, case, tuple assignment and polymorphic      *)
(*     calls, run on the stack machine          -- specification SpecProg  *)
(*   - the relational, arithmetic, logical, polymorphic and list builtins  *)
(*     applied to arguments of any type         -- specification SpecBuiltin*)
(***************************************************************************)
EXTENDS Integers, Sequences, FiniteSets, TLC

VARIABLES
    \* ---- board builtins (lang/gbs_builtins.py) ----
    gboard,         \* global_state.board
    lastCall,       \* the builtin called last, its argument and its outcome
    size0,          \* the grid dimensions the board was created with
    \* ---- stack machine running compiled code ----
    code,           \* the routine's instruction sequence
    ip,             \* instruction pointer (index into code)
    stack,          \* operand stack
    env,            \* local variable bindings of the frame
    trace,          \* arguments of the calls to user routines, in order
    vmerr,          \* runtime error raised by a builtin, if any
    loopIn,         \* the source the code was compiled from
    \* ---- execution harness (gui/app.py) ----
    running,        \* GUI._running
    last_alarm_id,  \* GUI._last_alarm_id: "None", "live" (callback pending), "stale"
    timers,         \* number of pending gobstones_continue_run callbacks
    run,            \* GUI._run: [running, worker]
    board1,         \* viewer.board1
    destroyed,      \* the main window was destroyed
    nworkers,       \* number of workers provisioned so far
    wpc,            \* per worker: position in InterpreterWorker.run
    sent,           \* per worker: every message put on its inbound queue
    nrecv,          \* per worker: how many of them it has taken
    emitted,        \* per worker: every message it put on its outbound queue
    nread,          \* per worker: how many of them the GUI has taken
    wop,            \* per worker: the START message it is handling
    wboard,         \* per worker: its local Board
    werr,           \* per worker: the SourceException raised while handling START
    logs,           \* per worker: what the logger of its run was handed
    reported,       \* editor.show_error / show_result calls, in order
    startBoard,     \* viewer.board1 when the last START was sent
    aborted,        \* workers whose run gobstones_abort_run cut short
    viewer,         \* GUI.viewer is a BoardViewer (TRUE) or None (FALSE)
    \* ---- compilation of a chain of modules (lang/gbs_compiler.py) ----
    modules,        \* the parse trees: modules[k] imports from modules[k + 1]
    compiled_code,  \* per module: the GbsCompiledProgram of its compile_program
    raised          \* the SourceException in flight and the module it left

bvars == <<gboard, lastCall, size0>>
vvars == <<code, ip, stack, env, trace, vmerr, loopIn>>
hvars == <<running, last_alarm_id, timers, run, board1, destroyed, nworkers,
           wpc, sent, nrecv, emitted, nread, wop, wboard, werr, logs,
           reported, startBoard, aborted, viewer>>
lvars == <<modules, compiled_code, raised>>
vars == <<bvars, vvars, hvars, lvars>>

(***************************************************************************)
(* Bounds of the model.                                                    *)
(***************************************************************************)
MaxSide == 2        \* grid sides range over 1..MaxSide
MaxStones == 1      \* PutStone is explored while the board holds fewer stones
MaxInt == 5         \* loop bounds range over -1..MaxInt
MaxWorkers == 3     \* workers the GUI may provision

\* no module is being compiled
LinkIdle ==
    /\ modules = <<>>
    /\ compiled_code = <<>>
    /\ raised = [cls |-> "none", msg |-> <<>>, area |-> <<>>, at |-> 0]

(***************************************************************************)
(* Runtime values: a type tag and an ordinal.  Bool False/True is 0/1.     *)
(***************************************************************************)
NUM_COLORS == 4

Val(t, v) == [t |-> t, v |-> v]

IntV(n) == Val("Int", n)
BoolV(b) == Val("Bool", IF b THEN 1 ELSE 0)
ColorV(i) == Val("Color", i)
DirV(i) == Val("Dir", i)

Colors == {ColorV(i) : i \in 0..(NUM_COLORS - 1)}
Dirs == {DirV(i) : i \in 0..3}

\* Direction.enum_size / Color.enum_size
enum_size(value) == 4

\* GbsEnum.next
enum_next(value) == Val(value.t, (value.v + 1) % enum_size(value))

\* a prev that does not wrap around
enum_prev_no_wrap(value) == Val(value.t, value.v - 1)

\* GbsEnum.prev
enum_prev(value) == Val(value.t, (value.v - 1) % enum_size(value))

\* GbsEnum.opposite
enum_opposite(value) ==
    Val(value.t, (value.v + enum_size(value) \div 2) % enum_size(value))

\* a DIRECTION_DELTA table with the two axes exchanged
DIRECTION_DELTA_swapped(o) ==
    CASE o = 0 -> <<0, 1>>
      [] o = 1 -> <<1, 0>>
      [] o = 2 -> <<0, -1>>
      [] o = 3 -> <<-1, 0>>

\* DIRECTION_DELTA and Direction.delta
DIRECTION_DELTA(o) ==
    CASE o = 0 -> <<1, 0>>
      [] o = 1 -> <<0, 1>>
      [] o = 2 -> <<-1, 0>>
      [] o = 3 -> <<0, -1>>

delta(direction) == DIRECTION_DELTA(direction.v)

poly_typeof(value) == value.t

poly_next(value) ==
    CASE value.t = "Bool" -> Val("Bool", 1 - value.v)
      [] value.t = "Int" -> Val("Int", value.v + 1)
      [] OTHER -> enum_next(value)

poly_prev(value) ==
    CASE value.t = "Bool" -> Val("Bool", 1 - value.v)
      [] value.t = "Int" -> Val("Int", value.v - 1)
      [] OTHER -> enum_prev(value)

\* poly_opposite on scalars.  enum_size() / 2 is 2 (2.0 under Python 3,
\* which compares equal to 2).
poly_opposite(value) ==
    CASE value.t = "Bool" -> Val("Bool", 1 - value.v)
      [] value.t = "Int" -> Val("Int", 0 - value.v)
      [] OTHER -> enum_opposite(value)

\* GbsEnum.__eq__
enum_eq(self, other) ==
    /\ other.t \in {"Color", "Dir"}
    /\ self.t = other.t
    /\ self.v = other.v

\* A Gobstones list is the value of type tag "List" holding the sequence of
\* its elements.  Python objects returned by poly_ord: an int, or a list
\* of such objects.
ListV(elems) == Val("List", elems)

PyInt(n) == [int |-> n]

PyList(items) == [list |-> items]

RECURSIVE poly_ord(_)
poly_ord(value) ==
    IF value.t = "List"
    THEN PyList([k \in 1..Len(value.v) |-> poly_ord(value.v[k])])
    ELSE PyList(<<PyInt(value.v)>>)

(***************************************************************************)
(* Runtime errors.  bt tells whether the message was built by              *)
(* global_state.backtrace(...).                                            *)
(***************************************************************************)
NoError == [cls |-> "none", text |-> "", arg |-> -1, bt |-> FALSE]

GbsRuntimeException(text, arg, bt) ==
    [cls |-> "GbsRuntimeException", text |-> text, arg |-> arg, bt |-> bt]

\* an exception of the board itself (lang.gbs_board), not a runtime error
BoardException(text) ==
    [cls |-> "BoardException", text |-> text, arg |-> -1, bt |-> FALSE]

(***************************************************************************)
(* The Board (lang.gbs_board).                                             *)
(***************************************************************************)
Positions(size) == (0..(size[1] - 1)) \X (0..(size[2] - 1))

EmptyCells(size) ==
    [p \in Positions(size) |-> [c \in 0..(NUM_COLORS - 1) |-> 0]]

Board(size) == [size |-> size, head |-> <<0, 0>>, cells |-> EmptyCells(size)]

num_stones(board, color) == board.cells[board.head][color.v]

exist_stones(board, color) == num_stones(board, color) > 0

put_stone(board, color) ==
    [board EXCEPT !.cells[board.head][color.v] = @ + 1]

\* Board.take_stone: fails with EmptyColor when there is no stone to take
take_stone(board, color) ==
    IF num_stones(board, color) > 0
    THEN [board |-> [board EXCEPT !.cells[board.head][color.v] = @ - 1],
          err |-> NoError]
    ELSE [board |-> board, err |-> BoardException("EmptyColor")]

can_move(board, direction) ==
    LET d == delta(direction)
        y == board.head[1] + d[1]
        x == board.head[2] + d[2]
    IN  /\ 0 <= y /\ y < board.size[1]
        /\ 0 <= x /\ x < board.size[2]

move(board, direction) ==
    LET d == delta(direction)
    IN  [board EXCEPT !.head = <<board.head[1] + d[1], board.head[2] + d[2]>>]

go_to_origin(board) == [board EXCEPT !.head = <<0, 0>>]

clear_board(board) == [board EXCEPT !.cells = EmptyCells(board.size)]

\* the number of stones on the whole board
TotalStones(board) ==
    LET h == board.size[2]
        RECURSIVE Sum(_)
        Sum(k) ==
            IF k = 0 THEN 0
            ELSE LET q == (k - 1) \div NUM_COLORS
                 IN  board.cells[<<q \div h, q % h>>][(k - 1) % NUM_COLORS]
                        + Sum(k - 1)
    IN  Sum(board.size[1] * h * NUM_COLORS)

(***************************************************************************)
(* Board builtins: each returns the board it leaves and the error raised.  *)
(***************************************************************************)
Outcome(board, err) == [board |-> board, err |-> err]

board_put_stone(board, color) ==
    IF poly_typeof(color) # "Color"
    THEN Outcome(board,
           GbsRuntimeException("The argument to PutStone should be a color", -1, FALSE))
    ELSE Outcome(put_stone(board, color), NoError)

board_take_stone_ge(board, color) ==
    IF poly_typeof(color) # "Color"
    THEN Outcome(board,
           GbsRuntimeException("The argument to TakeStone should be a color", -1, FALSE))
    ELSE IF num_stones(board, color) >= 0
    THEN take_stone(board, color)
    ELSE Outcome(board,
           GbsRuntimeException("Cannot take stones of color", color.v, TRUE))

board_take_stone(board, color) ==
    IF poly_typeof(color) # "Color"
    THEN Outcome(board,
           GbsRuntimeException("The argument to TakeStone should be a color", -1, FALSE))
    ELSE IF num_stones(board, color) > 0
    THEN take_stone(board, color)
    ELSE Outcome(board,
           GbsRuntimeException("Cannot take stones of color", color.v, TRUE))

board_move_unchecked(board, direction) ==
    IF poly_typeof(direction) # "Dir"
    THEN Outcome(board,
           GbsRuntimeException("The argument to Move should be a direction", -1, FALSE))
    ELSE Outcome(move(board, direction), NoError)

board_move(board, direction) ==
    IF poly_typeof(direction) # "Dir"
    THEN Outcome(board,
           GbsRuntimeException("The argument to Move should be a direction", -1, FALSE))
    ELSE IF can_move(board, direction)
    THEN Outcome(move(board, direction), NoError)
    ELSE Outcome(board,
           GbsRuntimeException("Cannot move to", direction.v, TRUE))

\* canMove: the value returned, or the error raised
board_can_move(board, direction) ==
    IF poly_typeof(direction) # "Dir"
    THEN [value |-> BoolV(FALSE),
          err |-> GbsRuntimeException(
                    "The argument to canMove should be a direction", -1, FALSE)]
    ELSE [value |-> BoolV(can_move(board, direction)), err |-> NoError]

board_num_stones(board, color) ==
    IF poly_typeof(color) # "Color"
    THEN [value |-> IntV(0),
          err |-> GbsRuntimeException(
                    "The argument to numStones should be a color", -1, FALSE)]
    ELSE [value |-> IntV(num_stones(board, color)), err |-> NoError]

builtin_go_to_origin(board) == Outcome(go_to_origin(board), NoError)

builtin_clear_board(board) == Outcome(clear_board(board), NoError)

(***************************************************************************)
(* SpecBoard: the board builtins called in any order with any argument.    *)
(***************************************************************************)
NoArg == Val("None", 0)

\* a color is a wrongly typed argument of Move, a direction of PutStone
ArgValues == Colors \cup Dirs

\* what lastCall records of a call
Call(name, arg, out) == [name |-> name, arg |-> arg, err |-> out.err]

PutStone ==
    /\ TotalStones(gboard) < MaxStones
    /\ \E v \in ArgValues :
          LET out == board_put_stone(gboard, v)
          IN  /\ gboard' = out.board
              /\ lastCall' = Call("PutStone", v, out)
    /\ UNCHANGED size0
    /\ UNCHANGED <<vvars, hvars, lvars>>

TakeStone ==
    /\ \E v \in ArgValues :
          LET out == board_take_stone(gboard, v)
          IN  /\ gboard' = out.board
              /\ lastCall' = Call("TakeStone", v, out)
    /\ UNCHANGED size0
    /\ UNCHANGED <<vvars, hvars, lvars>>

Move ==
    /\ \E v \in ArgValues :
          LET out == board_move(gboard, v)
          IN  /\ gboard' = out.board
              /\ lastCall' = Call("Move", v, out)
    /\ UNCHANGED size0
    /\ UNCHANGED <<vvars, hvars, lvars>>

GoToOrigin ==
    /\ gboard' = builtin_go_to_origin(gboard).board
    /\ lastCall' = Call("GoToOrigin", NoArg, builtin_go_to_origin(gboard))
    /\ UNCHANGED size0
    /\ UNCHANGED <<vvars, hvars, lvars>>

ClearBoard ==
    /\ gboard' = builtin_clear_board(gboard).board
    /\ lastCall' = Call("ClearBoard", NoArg, builtin_clear_board(gboard))
    /\ UNCHANGED size0
    /\ UNCHANGED <<vvars, hvars, lvars>>

BoardIdle ==
    /\ size0 = <<1, 1>>
    /\ gboard = Board(<<1, 1>>)
    /\ lastCall = [name |-> "none", arg |-> NoArg, err |-> NoError]


(***************************************************************************)
(* Relational builtins (poly_cmp) on scalar values.                        *)
(***************************************************************************)
\* Python's comparison of two objects of the same kind: integers by value,
\* lists lexicographically
RECURSIVE PyLess(_, _)
RECURSIVE ListLess(_, _)
ListLess(a, b) ==
    IF a = <<>> THEN b # <<>>
    ELSE IF b = <<>> THEN FALSE
    ELSE IF Head(a) # Head(b) THEN PyLess(Head(a), Head(b))
    ELSE ListLess(Tail(a), Tail(b))

PyLess(a, b) ==
    IF "int" \in DOMAIN a THEN a.int < b.int ELSE ListLess(a.list, b.list)

relop(name, a, b) ==
    CASE name = "==" -> a = b
      [] name = "/=" -> a # b
      [] name = "<"  -> PyLess(a, b)
      [] name = "<=" -> PyLess(a, b) \/ a = b
      [] name = ">=" -> ~PyLess(a, b)
      [] name = ">"  -> ~PyLess(a, b) /\ a # b

\* a comparison of the ordinals that does not look at the types
poly_cmp_untyped(value1, value2, op) ==
    [value |-> BoolV(relop(op, poly_ord(value1), poly_ord(value2))),
     err |-> NoError]

poly_cmp(value1, value2, op) ==
    IF poly_typeof(value1) # poly_typeof(value2)
    THEN [value |-> BoolV(FALSE),
          err |-> GbsRuntimeException(
                    "Relational operation between values of different types",
                    -1, FALSE)]
    ELSE [value |-> BoolV(relop(op, poly_ord(value1), poly_ord(value2))),
          err |-> NoError]

RelOps == {"==", "/=", "<", "<=", ">=", ">"}

(***************************************************************************)
(* Arithmetic, logical and list builtins (lang/gbs_builtins.py).  Each     *)
(* returns its value and the error it raised.                              *)
(***************************************************************************)
Return(value) == [value |-> value, err |-> NoError]

Raise(err) == [value |-> NoArg, err |-> err]

\* the major versions of Python the module runs under (sys.version_info[0])
PythonVersions == {2, 3}

\* Python's x // y and x % y (y # 0)
FloorDiv(x, y) == IF y > 0 THEN x \div y ELSE (0 - x) \div (0 - y)

FloorMod(x, y) == x - y * FloorDiv(x, y)

\* Python's x ** y (y >= 0)
RECURSIVE Power(_, _)
Power(x, y) == IF y = 0 THEN 1 ELSE x * Power(x, y - 1)

\* Python's x / y on integers: the floor under Python 2, the float x/y
\* (kept as the fraction) under Python 3
PyDivide(x, y, py) ==
    IF py < 3 THEN IntV(FloorDiv(x, y)) ELSE Val("Float", <<x, y>>)

arith_add(x, y) == Return(IntV(x.v + y.v))

arith_sub(x, y) == Return(IntV(x.v - y.v))

arith_mul(x, y) == Return(IntV(x.v * y.v))

\* an exponentiation that rejects the exponent 0 as well
arith_pow_le(x, y) ==
    IF y.v <= 0
    THEN Raise(GbsRuntimeException("Negative exponent", -1, TRUE))
    ELSE Return(IntV(Power(x.v, y.v)))

arith_pow(x, y) ==
    IF y.v < 0
    THEN Raise(GbsRuntimeException("Negative exponent", -1, TRUE))
    ELSE Return(IntV(Power(x.v, y.v)))

arith_div(x, y, py) ==
    IF y.v = 0
    THEN Raise(GbsRuntimeException("Division by zero", -1, TRUE))
    ELSE Return(PyDivide(x.v, y.v, py))

arith_mod(x, y) ==
    IF y.v = 0
    THEN Raise(GbsRuntimeException("Division by zero", -1, TRUE))
    ELSE Return(IntV(FloorMod(x.v, y.v)))

ArithOps == {"+", "-", "*", "^", "div", "mod"}

\* BUILTINS: the function each arithmetic operator hands to arith_op
arith_opr(name, x, y, py) ==
    CASE name = "+" -> arith_add(x, y)
      [] name = "-" -> arith_sub(x, y)
      [] name = "*" -> arith_mul(x, y)
      [] name = "^" -> arith_pow(x, y)
      [] name = "div" -> arith_div(x, y, py)
      [] name = "mod" -> arith_mod(x, y)

\* an arith_op that checks the type of its first operand only
arith_op_first(name, values, py) ==
    IF poly_typeof(values[1]) # "Int"
    THEN Raise(GbsRuntimeException(
                 "Arithmetic operation over non-numeric values", -1, FALSE))
    ELSE arith_opr(name, values[1], values[2], py)

arith_op(name, values, py) ==
    IF \E k \in 1..Len(values) : poly_typeof(values[k]) # "Int"
    THEN Raise(GbsRuntimeException(
                 "Arithmetic operation over non-numeric values", -1, FALSE))
    ELSE arith_opr(name, values[1], values[2], py)

logical_not(value) == Return(Val("Bool", 1 - value.v))

\* Python's 'value1 and value2', 'value1 or value2'
logical_and(value1, value2) == Return(IF value1.v = 0 THEN value1 ELSE value2)

logical_or(value1, value2) == Return(IF value1.v # 0 THEN value1 ELSE value2)

LogicalOps == {"not", "&&", "||"}

logical_op(name, values) ==
    IF \E k \in 1..Len(values) : poly_typeof(values[k]) # "Bool"
    THEN Raise(GbsRuntimeException(
                 "Logical operation over non-boolean values", -1, FALSE))
    ELSE CASE name = "not" -> logical_not(values[1])
           [] name = "&&" -> logical_and(values[1], values[2])
           [] name = "||" -> logical_or(values[1], values[2])

\* poly_typeof of a list: assert False
AssertionError == [cls |-> "AssertionError", text |-> "", arg |-> -1, bt |-> FALSE]

gbs_poly_opposite(value) ==
    IF value.t = "List"
    THEN Raise(AssertionError)
    ELSE IF poly_typeof(value) \notin {"Dir", "Int"}
    THEN Raise(GbsRuntimeException(
           "The argument to opposite should be a direction or an integer",
           -1, FALSE))
    ELSE Return(poly_opposite(value))

ListOps == {"head", "tail", "last", "init"}

\* list_operation with the f of list_head, list_tail, list_last, list_init
list_operation(name, lst) ==
    IF Len(lst.v) = 0
    THEN Raise(GbsRuntimeException("Empty list", -1, TRUE))
    ELSE CASE name = "head" -> Return(lst.v[1])
           [] name = "tail" -> Return(ListV(Tail(lst.v)))
           [] name = "last" -> Return(lst.v[Len(lst.v)])
           [] name = "init" -> Return(ListV(SubSeq(lst.v, 1, Len(lst.v) - 1)))

(***************************************************************************)
(* Names of builtins.  A name is the tuple of its '@'-separated parts:     *)
(* <<"next">> is next, <<"next", "Int">> is next@Int.                      *)
(***************************************************************************)
BUILTINS_POLYMORPHIC == {"next", "prev", "opposite", "unary-"}

poly_encode_type(type_name) == type_name

polyname(fname, types) ==
    <<fname>> \o [k \in 1..Len(types) |-> poly_encode_type(types[k])]

polyname_name(name) == name[1]

polyname_types(name) == Tail(name)

\* lang.gbs_type.BasicTypes.keys()
BasicTypes == {"Bool", "Int", "Color", "Dir"}

\* _poly_args of a builtin of one parameter (TYPE_AA)
_poly_args == {<<basic_type>> : basic_type \in BasicTypes}

\* the names _initialize_poly_builtins adds to BUILTINS
_initialize_poly_builtins ==
    {polyname(builtin, param_types) :
        builtin \in BUILTINS_POLYMORPHIC, param_types \in _poly_args}

\* the names of the builtin functions and operators
BUILTIN_NAMES ==
    {<<name>> : name \in {"next", "prev", "opposite", "unary-", "not", "&&", "||",
                          "==", "/=", "<", "<=", ">=", ">",
                          "+", "-", "*", "^", "div", "mod"}}
    \cup _initialize_poly_builtins

(***************************************************************************)
(* Literals: a token's value is its sequence of characters.                *)
(***************************************************************************)
Digits == {"0", "1", "2", "3", "4", "5", "6", "7", "8", "9"}

DigitValue(ch) ==
    CASE ch = "0" -> 0 [] ch = "1" -> 1 [] ch = "2" -> 2 [] ch = "3" -> 3
      [] ch = "4" -> 4 [] ch = "5" -> 5 [] ch = "6" -> 6 [] ch = "7" -> 7
      [] ch = "8" -> 8 [] ch = "9" -> 9

_is_int_constant(string) ==
    /\ ~(Len(string) = 0 \/ (string[1] = "-" /\ Len(string) = 1))
    /\ string[1] \in {"-"} \cup Digits
    /\ \A k \in 2..Len(string) : string[k] \in Digits

\* int(string) for a string _is_int_constant accepts
RECURSIVE DecimalValue(_)
DecimalValue(digs) ==
    IF digs = <<>> THEN 0
    ELSE 10 * DecimalValue(SubSeq(digs, 1, Len(digs) - 1))
         + DigitValue(digs[Len(digs)])

int(string) ==
    IF string[1] = "-" THEN 0 - DecimalValue(Tail(string))
    ELSE DecimalValue(string)

parse_constant(string) ==
    IF _is_int_constant(string) THEN IntV(int(string))
    ELSE CASE string = <<"T", "r", "u", "e">> -> BoolV(TRUE)
           [] string = <<"F", "a", "l", "s", "e">> -> BoolV(FALSE)
           [] string = <<"N", "o", "r", "t", "h">> -> DirV(0)
           [] string = <<"E", "a", "s", "t">> -> DirV(1)
           [] string = <<"S", "o", "u", "t", "h">> -> DirV(2)
           [] string = <<"W", "e", "s", "t">> -> DirV(3)
           [] string = <<"C", "o", "l", "o", "r", "0">> -> ColorV(0)
           [] string = <<"C", "o", "l", "o", "r", "1">> -> ColorV(1)
           [] string = <<"C", "o", "l", "o", "r", "2">> -> ColorV(2)
           [] string = <<"C", "o", "l", "o", "r", "3">> -> ColorV(3)
           [] OTHER -> NoArg

parse_literal(tok) == parse_constant(tok)

\* the decimal token of a one-digit integer
DigitChar(d) ==
    CASE d = 0 -> "0" [] d = 1 -> "1" [] d = 2 -> "2" [] d = 3 -> "3"
      [] d = 4 -> "4" [] d = 5 -> "5" [] d = 6 -> "6" [] d = 7 -> "7"
      [] d = 8 -> "8" [] d = 9 -> "9"

IntToken(n) == IF n < 0 THEN <<"-", DigitChar(0 - n)>> ELSE <<DigitChar(n)>>

(***************************************************************************)
(* The compiler (lang/gbs_compiler.py).  A compilation state holds the     *)
(* code emitted so far, GbsCompiler.temp_counter and the number of         *)
(* GbsLabel objects created so far (a label is its creation number).       *)
(***************************************************************************)
CompilerState == [code |-> <<>>, temp_counter |-> 0, nlabels |-> 0]

push(st, instr) == [st EXCEPT !.code = Append(@, instr)]

\* GbsLabel(): a fresh label
GbsLabel(st) == st.nlabels + 1

NewLabels(st, n) == [st EXCEPT !.nlabels = @ + n]

\* GbsCompiler.temp_varname: '_tempvar%i'
temp_varname(st) == <<"_tempvar", st.temp_counter + 1>>

NewTemp(st) == [st EXCEPT !.temp_counter = @ + 1]

VarName(name) == <<name, 0>>

compile_literal(tree, st) ==
    push(st, [op |-> "pushConst", val |-> parse_literal(tree.tok)])

compile_var_name(tree, st) ==
    push(st, [op |-> "pushVar", name |-> VarName(tree.name)])

RECURSIVE compile_expression(_, _)
RECURSIVE compile_args(_, _)

\* for arg in args: self.compile_expression(arg, code)
compile_args(args, st) ==
    IF args = <<>> THEN st
    ELSE compile_args(Tail(args), compile_expression(Head(args), st))

compile_binary_op(tree, st) ==
    push(compile_expression(tree.right, compile_expression(tree.left, st)),
         [op |-> "call", name |-> <<tree.op>>, nargs |-> 2])

compile_not(tree, st) ==
    push(compile_expression(tree.arg, st),
         [op |-> "call", name |-> <<"not">>, nargs |-> 1])

compile_or(tree, st) ==
    LET lcontinue == GbsLabel(st)
        lend == GbsLabel(st) + 1
        s1 == compile_expression(tree.left, NewLabels(st, 2))
        s2 == push(push(push(push(s1,
                [op |-> "jumpIfFalse", label |-> lcontinue]),
                [op |-> "pushConst",
                 val |-> parse_constant(<<"T", "r", "u", "e">>)]),
                [op |-> "jump", label |-> lend]),
                [op |-> "label", label |-> lcontinue])
    IN  push(compile_expression(tree.right, s2),
             [op |-> "label", label |-> lend])

\* an 'and' whose right operand is not guarded by the test of the left one
compile_and_unguarded(tree, st) ==
    LET lcontinue == GbsLabel(st)
        lend == GbsLabel(st) + 1
        s1 == compile_expression(tree.left, NewLabels(st, 2))
        s2 == push(push(s1,
                [op |-> "jumpIfFalse", label |-> lcontinue]),
                [op |-> "label", label |-> lcontinue])
        s3 == compile_expression(tree.right, s2)
    IN  push(push(push(s3,
            [op |-> "jump", label |-> lend]),
            [op |-> "pushConst",
             val |-> parse_constant(<<"F", "a", "l", "s", "e">>)]),
            [op |-> "label", label |-> lend])

compile_and(tree, st) ==
    LET lcontinue == GbsLabel(st)
        lend == GbsLabel(st) + 1
        s1 == compile_expression(tree.left, NewLabels(st, 2))
        s2 == push(s1, [op |-> "jumpIfFalse", label |-> lcontinue])
        s3 == compile_expression(tree.right, s2)
    IN  push(push(push(push(s3,
            [op |-> "jump", label |-> lend]),
            [op |-> "label", label |-> lcontinue]),
            [op |-> "pushConst",
             val |-> parse_constant(<<"F", "a", "l", "s", "e">>)]),
            [op |-> "label", label |-> lend])

\* a call site that is never given its mangled name
_compile_func_call_poly_plain(tree, funcname, args, st) ==
    push(compile_args(args, st),
         [op |-> "call", name |-> <<funcname>>, nargs |-> Len(args)])

\* tree.annotated: the tree has a type_annotation attribute and it is a list
_compile_func_call_poly(tree, funcname, args, st) ==
    LET annotate == funcname \in BUILTINS_POLYMORPHIC /\ tree.annotated
        name == IF annotate THEN polyname(funcname, tree.type_annotation)
                ELSE <<funcname>>
    IN  push(compile_args(args, st),
             [op |-> "call", name |-> name, nargs |-> Len(args)])

compile_unary_minus(tree, st) ==
    _compile_func_call_poly(tree, "unary-", <<tree.arg>>, st)

compile_func_call(tree, st) ==
    _compile_func_call_poly(tree, tree.name, tree.args, st)

compile_expression(tree, st) ==
    CASE tree.kind = "or" -> compile_or(tree, st)
      [] tree.kind = "and" -> compile_and(tree, st)
      [] tree.kind = "not" -> compile_not(tree, st)
      [] tree.kind \in {"relop", "addsub", "mul", "divmod", "pow"} ->
            compile_binary_op(tree, st)
      [] tree.kind = "varName" -> compile_var_name(tree, st)
      [] tree.kind = "funcCall" -> compile_func_call(tree, st)
      [] tree.kind = "unaryMinus" -> compile_unary_minus(tree, st)
      [] tree.kind = "literal" -> compile_literal(tree, st)

\* a procedure call that compiles its arguments twice
compile_proc_call_twice(tree, st) ==
    push(compile_args(tree.args, compile_args(tree.args, st)),
         [op |-> "call", name |-> <<tree.name>>, nargs |-> Len(tree.args)])

compile_proc_call(tree, st) ==
    push(compile_args(tree.args, st),
         [op |-> "call", name |-> <<tree.name>>, nargs |-> Len(tree.args)])

compile_skip(tree, st) == st

RECURSIVE compile_commands(_, _)
RECURSIVE compile_cmd(_, _)
RECURSIVE compile_block(_, _)
RECURSIVE compile_repeat_with(_, _)
RECURSIVE compile_case(_, _)
RECURSIVE compile_if(_, _)
RECURSIVE compile_while(_, _)

compile_commands(cmds, st) ==
    IF cmds = <<>> THEN st
    ELSE compile_commands(Tail(cmds), compile_cmd(Head(cmds), st))

compile_block(tree, st) == compile_commands(tree.cmds, st)

\* a call_next that calls prev
call_next_prev(tree, st) ==
    LET name == IF tree.index_type_annotation # "none"
                THEN polyname("prev", <<tree.index_type_annotation>>)
                ELSE <<"prev">>
    IN  push(st, [op |-> "call", name |-> name, nargs |-> 1])

\* call_next of compile_repeat_with
call_next(tree, st) ==
    LET name == IF tree.index_type_annotation # "none"
                THEN polyname("next", <<tree.index_type_annotation>>)
                ELSE <<"next">>
    IN  push(st, [op |-> "call", name |-> name, nargs |-> 1])

\* a repeatWith whose loop is entered without comparing the bounds
compile_repeat_with_no_guard(tree, st) ==
    LET i == VarName(tree.index)
        upper0 == temp_varname(st)
        s0 == NewLabels(NewTemp(st), 2)
        lbegin == GbsLabel(st)
        lend == GbsLabel(st) + 1
        s1 == push(compile_expression(tree.lower, s0), [op |-> "assign", name |-> i])
        s2 == push(compile_expression(tree.upper, s1), [op |-> "assign", name |-> upper0])
        s4 == push(s2, [op |-> "label", label |-> lbegin])
        s5 == compile_block(tree.body, s4)
        s6 == push(push(push(push(s5,
                [op |-> "pushVar", name |-> i]),
                [op |-> "pushVar", name |-> upper0]),
                [op |-> "call", name |-> <<"/=">>, nargs |-> 2]),
                [op |-> "jumpIfFalse", label |-> lend])
        s7 == push(call_next(tree, push(s6, [op |-> "pushVar", name |-> i])),
                [op |-> "assign", name |-> i])
    IN  push(push(push(s7,
            [op |-> "jump", label |-> lbegin]),
            [op |-> "label", label |-> lend]),
            [op |-> "delVar", name |-> i])

compile_repeat_with(tree, st) ==
    LET i == VarName(tree.index)
        upper0 == temp_varname(st)
        s0 == NewLabels(NewTemp(st), 2)
        lbegin == GbsLabel(st)
        lend == GbsLabel(st) + 1
        \* i := Lower
        s1 == push(compile_expression(tree.lower, s0), [op |-> "assign", name |-> i])
        \* upper0 := Upper
        s2 == push(compile_expression(tree.upper, s1), [op |-> "assign", name |-> upper0])
        \* if i <= upper0
        s3 == push(push(push(push(s2,
                [op |-> "pushVar", name |-> i]),
                [op |-> "pushVar", name |-> upper0]),
                [op |-> "call", name |-> <<"<=">>, nargs |-> 2]),
                [op |-> "jumpIfFalse", label |-> lend])
        \* while true
        s4 == push(s3, [op |-> "label", label |-> lbegin])
        \* body
        s5 == compile_block(tree.body, s4)
        \* if (i == upper0) break
        s6 == push(push(push(push(s5,
                [op |-> "pushVar", name |-> i]),
                [op |-> "pushVar", name |-> upper0]),
                [op |-> "call", name |-> <<"/=">>, nargs |-> 2]),
                [op |-> "jumpIfFalse", label |-> lend])
        \* i := next(i)
        s7 == push(call_next(tree, push(s6, [op |-> "pushVar", name |-> i])),
                [op |-> "assign", name |-> i])
        \* end while
    IN  push(push(push(s7,
            [op |-> "jump", label |-> lbegin]),
            [op |-> "label", label |-> lend]),
            [op |-> "delVar", name |-> i])

compile_assign_var_name(tree, st) ==
    push(compile_expression(tree.expr, st),
         [op |-> "assign", name |-> VarName(tree.var)])

\* for var in seq: code.push(('assign', var))
RECURSIVE push_assigns(_, _)
push_assigns(seq, st) ==
    IF seq = <<>> THEN st
    ELSE push_assigns(Tail(seq),
                      push(st, [op |-> "assign", name |-> VarName(Head(seq))]))

\* common.utils.seq_reversed
seq_reversed(seq) == [k \in 1..Len(seq) |-> seq[Len(seq) + 1 - k]]

\* a tuple assignment whose targets are assigned in declaration order
compile_assign_var_tuple1_in_order(tree, st) ==
    push_assigns(tree.vars, compile_expression(tree.expr, st))

compile_assign_var_tuple1(tree, st) ==
    push_assigns(seq_reversed(tree.vars), compile_expression(tree.expr, st))

\* the loop over the branches of compile_case; next_label 0 is None
RECURSIVE compile_branches_no_jump(_, _, _, _, _)
compile_branches_no_jump(branches, next_label, value0, lend, st) ==
    IF branches = <<>> THEN st
    ELSE LET branch == Head(branches)
             s1 == IF next_label # 0
                   THEN push(st, [op |-> "label", label |-> next_label])
                   ELSE st
         IN  IF branch.kind = "branch"
             THEN LET lits == [k \in 1..Len(branch.lits) |->
                                   parse_literal(branch.lits[k])]
                      next == GbsLabel(s1)
                      s2 == push(push(NewLabels(s1, 1),
                              [op |-> "pushVar", name |-> value0]),
                              [op |-> "jumpIfNotIn", lits |-> lits, label |-> next])
                      s3 == compile_block(branch.body, s2)
                  IN  compile_branches_no_jump(Tail(branches), next, value0, lend, s3)
             ELSE compile_branches_no_jump(Tail(branches), next_label, value0, lend,
                                   compile_block(branch.body, s1))

RECURSIVE compile_branches(_, _, _, _, _)
compile_branches(branches, next_label, value0, lend, st) ==
    IF branches = <<>> THEN st
    ELSE LET branch == Head(branches)
             s1 == IF next_label # 0
                   THEN push(st, [op |-> "label", label |-> next_label])
                   ELSE st
         IN  IF branch.kind = "branch"
             THEN LET lits == [k \in 1..Len(branch.lits) |->
                                   parse_literal(branch.lits[k])]
                      next == GbsLabel(s1)
                      s2 == push(push(NewLabels(s1, 1),
                              [op |-> "pushVar", name |-> value0]),
                              [op |-> "jumpIfNotIn", lits |-> lits, label |-> next])
                      s3 == push(compile_block(branch.body, s2),
                              [op |-> "jump", label |-> lend])
                  IN  compile_branches(Tail(branches), next, value0, lend, s3)
             ELSE compile_branches(Tail(branches), next_label, value0, lend,
                                   compile_block(branch.body, s1))

compile_case(tree, st) ==
    LET value0 == temp_varname(st)
        s1 == push(compile_expression(tree.value, NewTemp(st)),
                   [op |-> "assign", name |-> value0])
        lend == GbsLabel(s1)
        s2 == compile_branches(tree.branches, 0, value0, lend, NewLabels(s1, 1))
    IN  push(s2, [op |-> "label", label |-> lend])

\* tree.children[3] of an 'if' without else
NoElse == [kind |-> "None"]

compile_if(tree, st) ==
    LET lelse == GbsLabel(st)
        s1 == push(compile_expression(tree.cond, NewLabels(st, 1)),
                   [op |-> "jumpIfFalse", label |-> lelse])
        s2 == compile_block(tree.then, s1)
    IN  IF tree.else = NoElse
        THEN push(s2, [op |-> "label", label |-> lelse])
        ELSE LET lend == GbsLabel(s2)
                 s3 == push(push(NewLabels(s2, 1),
                         [op |-> "jump", label |-> lend]),
                         [op |-> "label", label |-> lelse])
             IN  push(compile_block(tree.else, s3),
                      [op |-> "label", label |-> lend])

compile_while(tree, st) ==
    LET lbegin == GbsLabel(st)
        lend == GbsLabel(st) + 1
        s1 == push(NewLabels(st, 2), [op |-> "label", label |-> lbegin])
        s2 == push(compile_expression(tree.cond, s1),
                   [op |-> "jumpIfFalse", label |-> lend])
        s3 == compile_block(tree.body, s2)
    IN  push(push(s3,
            [op |-> "jump", label |-> lbegin]),
            [op |-> "label", label |-> lend])

compile_cmd(tree, st) ==
    CASE tree.kind = "Skip" -> compile_skip(tree, st)
      [] tree.kind = "procCall" -> compile_proc_call(tree, st)
      [] tree.kind = "assignVarName" -> compile_assign_var_name(tree, st)
      [] tree.kind = "assignVarTuple1" -> compile_assign_var_tuple1(tree, st)
      [] tree.kind = "if" -> compile_if(tree, st)
      [] tree.kind = "case" -> compile_case(tree, st)
      [] tree.kind = "while" -> compile_while(tree, st)
      [] tree.kind = "repeatWith" -> compile_repeat_with(tree, st)
      [] tree.kind = "block" -> compile_block(tree, st)


(***************************************************************************)
(* The stack machine (lang.gbs_vm) running one routine's code.             *)
(***************************************************************************)
\* GbsCompiledCode.build_label_table: label -> offset of its 'label' instruction
build_label_table(instrs) ==
    LET labels == {instrs[k].label : k \in {j \in 1..Len(instrs) : instrs[j].op = "label"}}
    IN  [l \in labels |->
            CHOOSE k \in 1..Len(instrs) :
                instrs[k].op = "label" /\ instrs[k].label = l]

Bind(bindings, name, value) ==
    [n \in (DOMAIN bindings) \cup {name} |->
        IF n = name THEN value ELSE bindings[n]]

Unbind(bindings, name) ==
    [n \in (DOMAIN bindings) \ {name} |-> bindings[n]]

Pop(stk, n) == SubSeq(stk, 1, Len(stk) - n)

Top(stk) == stk[Len(stk)]

Executing == ip \in 1..Len(code) /\ vmerr = NoError

Finished == ip = Len(code) + 1 /\ vmerr = NoError

\* the builtin a call instruction names, applied to its arguments
CallBuiltin(name, args) ==
    CASE polyname_name(name) \in RelOps ->
            poly_cmp(args[1], args[2], polyname_name(name))
      [] polyname_name(name) = "next" ->
            [value |-> poly_next(args[1]), err |-> NoError]
      [] polyname_name(name) = "prev" ->
            [value |-> poly_prev(args[1]), err |-> NoError]
      [] polyname_name(name) \in {"opposite", "unary-"} ->
            gbs_poly_opposite(args[1])

ExecPushConst ==
    /\ Executing /\ code[ip].op = "pushConst"
    /\ stack' = Append(stack, code[ip].val)
    /\ ip' = ip + 1
    /\ UNCHANGED <<code, env, trace, vmerr, loopIn>>
    /\ UNCHANGED <<bvars, hvars, lvars>>

ExecPushVar ==
    /\ Executing /\ code[ip].op = "pushVar"
    /\ stack' = Append(stack, env[code[ip].name])
    /\ ip' = ip + 1
    /\ UNCHANGED <<code, env, trace, vmerr, loopIn>>
    /\ UNCHANGED <<bvars, hvars, lvars>>

ExecAssign ==
    /\ Executing /\ code[ip].op = "assign"
    /\ env' = Bind(env, code[ip].name, Top(stack))
    /\ stack' = Pop(stack, 1)
    /\ ip' = ip + 1
    /\ UNCHANGED <<code, trace, vmerr, loopIn>>
    /\ UNCHANGED <<bvars, hvars, lvars>>

ExecDelVar ==
    /\ Executing /\ code[ip].op = "delVar"
    /\ env' = Unbind(env, code[ip].name)
    /\ ip' = ip + 1
    /\ UNCHANGED <<code, stack, trace, vmerr, loopIn>>
    /\ UNCHANGED <<bvars, hvars, lvars>>

ExecLabel ==
    /\ Executing /\ code[ip].op = "label"
    /\ ip' = ip + 1
    /\ UNCHANGED <<code, stack, env, trace, vmerr, loopIn>>
    /\ UNCHANGED <<bvars, hvars, lvars>>

ExecJump ==
    /\ Executing /\ code[ip].op = "jump"
    /\ ip' = build_label_table(code)[code[ip].label]
    /\ UNCHANGED <<code, stack, env, trace, vmerr, loopIn>>
    /\ UNCHANGED <<bvars, hvars, lvars>>

ExecJumpIfFalse ==
    /\ Executing /\ code[ip].op = "jumpIfFalse"
    /\ stack' = Pop(stack, 1)
    /\ ip' = IF Top(stack) = BoolV(TRUE)
             THEN ip + 1
             ELSE build_label_table(code)[code[ip].label]
    /\ UNCHANGED <<code, env, trace, vmerr, loopIn>>
    /\ UNCHANGED <<bvars, hvars, lvars>>

\* The user routines of the programs run here: the procedure Visit records
\* its argument, the function Probe records its argument and returns it,
\* the function Tuple returns its arguments as its results.
UserRoutines == {<<"Visit">>, <<"Probe">>, <<"Tuple">>}

CallRoutine(name, args) ==
    CASE name = <<"Visit">> -> [results |-> <<>>, seen |-> <<args[1]>>]
      [] name = <<"Probe">> -> [results |-> <<args[1]>>, seen |-> <<args[1]>>]
      [] name = <<"Tuple">> -> [results |-> args, seen |-> <<>>]

\* jumpIfNotIn: pops the scrutinee; jumps when it is none of the literals
\* a label missing from the label table stops the machine
ExecJumpIfNotIn ==
    /\ Executing /\ code[ip].op = "jumpIfNotIn"
    /\ stack' = Pop(stack, 1)
    /\ IF \E k \in 1..Len(code[ip].lits) : code[ip].lits[k] = Top(stack)
       THEN ip' = ip + 1 /\ UNCHANGED vmerr
       ELSE IF code[ip].label \in DOMAIN build_label_table(code)
       THEN ip' = build_label_table(code)[code[ip].label] /\ UNCHANGED vmerr
       ELSE /\ vmerr' = [cls |-> "KeyError", text |-> "label",
                         arg |-> code[ip].label, bt |-> FALSE]
            /\ UNCHANGED ip
    /\ UNCHANGED <<code, env, trace, loopIn>>
    /\ UNCHANGED <<bvars, hvars, lvars>>

ExecCall ==
    /\ Executing /\ code[ip].op = "call"
    /\ LET n == code[ip].nargs
           args == SubSeq(stack, Len(stack) - n + 1, Len(stack))
       IN  IF code[ip].name \in UserRoutines
           THEN /\ trace' = trace \o CallRoutine(code[ip].name, args).seen
                /\ stack' = Pop(stack, n) \o CallRoutine(code[ip].name, args).results
                /\ ip' = ip + 1
                /\ UNCHANGED vmerr
           ELSE LET r == CallBuiltin(code[ip].name, args)
                IN  /\ vmerr' = r.err
                    /\ stack' = IF r.err = NoError
                                THEN Append(Pop(stack, n), r.value)
                                ELSE Pop(stack, n)
                    /\ ip' = IF r.err = NoError THEN ip + 1 ELSE ip
                    /\ UNCHANGED trace
    /\ UNCHANGED <<code, env, loopIn>>
    /\ UNCHANGED <<bvars, hvars, lvars>>

VMStep ==
    \/ ExecPushConst
    \/ ExecPushVar
    \/ ExecAssign
    \/ ExecDelVar
    \/ ExecLabel
    \/ ExecJump
    \/ ExecJumpIfFalse
    \/ ExecCall

\* repeatWith i in lower..upper { Visit(i) }
RepeatWithTree(lower, upper, annot) ==
    [kind |-> "repeatWith",
     index |-> "i",
     lower |-> [kind |-> "literal", tok |-> IntToken(lower)],
     upper |-> [kind |-> "literal", tok |-> IntToken(upper)],
     index_type_annotation |-> annot,
     body |-> [kind |-> "block",
               cmds |-> <<[kind |-> "procCall", name |-> "Visit",
                           args |-> <<[kind |-> "varName", name |-> "i"]>>]>>]]

LoopBounds == (-1)..MaxInt

VMInit ==
    \E lower \in LoopBounds, upper \in LoopBounds, annot \in {"none", "Int"} :
        /\ loopIn = [lower |-> lower, upper |-> upper, annot |-> annot]
        /\ code = compile_commands(<<RepeatWithTree(lower, upper, annot)>>,
                                   CompilerState).code
        /\ ip = 1
        /\ stack = <<>>
        /\ env = <<>>
        /\ trace = <<>>
        /\ vmerr = NoError

VMIdle ==
    /\ loopIn = [lower |-> 0, upper |-> 0, annot |-> "none"]
    /\ code = <<>>
    /\ ip = 1
    /\ stack = <<>>
    /\ env = <<>>
    /\ trace = <<>>
    /\ vmerr = NoError


(***************************************************************************)
(* The execution harness (gui/app.py).                                     *)
(***************************************************************************)
Workers == 1..MaxWorkers

\* lang.board.formats 'gbb': the board as text, and back
board_to_string(board) == <<"GBB", board.size, board.head, board.cells>>

board_from_string(s) ==
    IF Len(s) = 4 /\ s[1] = "GBB"
    THEN [board |-> [size |-> s[2], head |-> s[3], cells |-> s[4]],
          raised |-> FALSE]
    ELSE [board |-> Board(<<1, 1>>), raised |-> TRUE]

\* a SourceException: class, message, area
NoException == [cls |-> "none", msg |-> "", area |-> ""]

Exception(cls, msg, area) == [cls |-> cls, msg |-> msg, area |-> area]

\* program texts: one that runs to its end, one failing at each stage
Texts == {"Put", "SyntaxError", "LintError", "CompileError", "Boom"}

\* the programs the editor holds when Run is pressed
EditorTexts == {"Put", "LintError", "Boom"}

\* tools.parse_string_try_prelude / tools.lint / tools.compile: what each raises
StageRaises(stage, text) ==
    CASE stage = "parse" /\ text = "SyntaxError" ->
            Exception("ParserException", "Syntax error", "Untitled:1")
      [] stage = "lint" /\ text = "LintError" ->
            Exception("GbsLintException", "Semantic error", "Untitled:2")
      [] stage = "compile" /\ text = "CompileError" ->
            Exception("GbsCompileException", "Compile error", "Untitled:3")
      [] OTHER -> NoException

\* tools.interp: "Put" is Main { PutStone(Color0) },
\* "Boom" is Main { PutStone(Color0); TakeStone(Color1) }
interp(text, board) ==
    IF text = "Boom"
    THEN LET r1 == board_put_stone(board, ColorV(0))
             r2 == board_take_stone(r1.board, ColorV(1))
         IN  [board |-> r2.board, result |-> <<>>,
              exc |-> IF r2.err = NoError THEN NoException
                      ELSE Exception(r2.err.cls, r2.err.text, "Untitled:4")]
    ELSE LET r1 == board_put_stone(board, ColorV(0))
         IN  [board |-> r1.board, result |-> <<>>, exc |-> NoException]

\* InterpreterWorker._ok, with the board text of START instead of the final board
_ok_initial_board(board, result, op) == <<"OK", op[4], result>>

\* InterpreterWorker._ok
_ok(board, result, op) == <<"OK", board_to_string(board), result>>

\* InterpreterWorker._fail
_fail(exception) == <<"FAIL", <<exception.cls, <<exception.msg, exception.area>>>>>>

\* reduced[0](*reduced[1]) in gobstones_continue_run
Rebuild(reduced) ==
    Exception(reduced[1], reduced[2][1], reduced[2][2])

\* the stage messages with two of them exchanged
LogMessages_swapped ==
    <<"Parsing.", "Compiling.", "Performing semantic checks.",
      "Starting program execution.">>

LogMessages ==
    <<"Parsing.", "Performing semantic checks.", "Compiling.",
      "Starting program execution.">>

\* common.threads.terminate_process
terminate_process(procs, w) ==
    [procs EXCEPT ![w] = IF @ \in {"done", "crashed"} THEN @ ELSE "killed"]

\* ---- the worker process: InterpreterWorker.run ----
\* queue_in.get() of a worker that takes whatever is not EXIT for a START
WorkerGet_unchecked(w) ==
    /\ wpc[w] = "wait"
    /\ nrecv[w] < Len(sent[w])
    /\ LET op == sent[w][nrecv[w] + 1]
       IN  /\ nrecv' = [nrecv EXCEPT ![w] = @ + 1]
           /\ IF op[1] = "EXIT"
              THEN /\ wpc' = [wpc EXCEPT ![w] = "done"]
                   /\ UNCHANGED <<wop, werr>>
              ELSE /\ wpc' = [wpc EXCEPT ![w] = "decode"]
                   /\ wop' = [wop EXCEPT ![w] = op]
                   /\ UNCHANGED werr
    /\ UNCHANGED <<running, last_alarm_id, timers, run, board1, destroyed,
                   nworkers, sent, emitted, nread, wboard, logs,
                   reported, startBoard, aborted>>
    /\ UNCHANGED <<viewer, bvars, vvars, lvars>>

\* op = queue_in.get(); assert op[0] in ['START', 'EXIT']; EXIT returns
WorkerGet(w) ==
    /\ wpc[w] = "wait"
    /\ nrecv[w] < Len(sent[w])
    /\ LET op == sent[w][nrecv[w] + 1]
       IN  /\ nrecv' = [nrecv EXCEPT ![w] = @ + 1]
           /\ IF op[1] \notin {"START", "EXIT"}
              THEN /\ wpc' = [wpc EXCEPT ![w] = "crashed"]
                   /\ werr' = [werr EXCEPT ![w] =
                                 Exception("AssertionError", "", "")]
                   /\ UNCHANGED wop
              ELSE IF op[1] = "EXIT"
              THEN /\ wpc' = [wpc EXCEPT ![w] = "done"]
                   /\ UNCHANGED <<wop, werr>>
              ELSE /\ wpc' = [wpc EXCEPT ![w] = "decode"]
                   /\ wop' = [wop EXCEPT ![w] = op]
                   /\ UNCHANGED werr
    /\ UNCHANGED <<running, last_alarm_id, timers, run, board1, destroyed,
                   nworkers, sent, emitted, nread, wboard, logs,
                   reported, startBoard, aborted>>
    /\ UNCHANGED <<viewer, bvars, vvars, lvars>>

\* the stage a LOG message announces
LogIndex(pc) ==
    CASE pc = "parse" -> 1 [] pc = "lint" -> 2
      [] pc = "compile" -> 3 [] pc = "interp" -> 4

\* queue_out.put(('LOG', ...)) before the stage at pc
PutLog(w, pc) == Append(emitted[w], <<"LOG", LogMessages[LogIndex(pc)]>>)

\* board_from_string(board, board_repr), outside the try block; then the
\* try block is entered and the first LOG is put
WorkerDecode(w) ==
    /\ wpc[w] = "decode"
    /\ LET r == board_from_string(wop[w][4])
       IN  IF r.raised
           THEN /\ wpc' = [wpc EXCEPT ![w] = "crashed"]
                /\ werr' = [werr EXCEPT ![w] =
                              Exception("BoardFormatException", "Malformed board", "")]
                /\ UNCHANGED <<wboard, emitted>>
           ELSE /\ wpc' = [wpc EXCEPT ![w] = "parse"]
                /\ wboard' = [wboard EXCEPT ![w] = r.board]
                /\ emitted' = [emitted EXCEPT ![w] = PutLog(w, "parse")]
                /\ UNCHANGED werr
    /\ UNCHANGED <<running, last_alarm_id, timers, run, board1, destroyed,
                   nworkers, sent, nrecv, nread, wop, logs,
                   reported, startBoard, aborted>>
    /\ UNCHANGED <<viewer, bvars, vvars, lvars>>

\* a stage of the try block: what it raises is caught by 'except
\* SourceException' and answered by _fail; otherwise the LOG of the next
\* stage is put
StageOutcome(w, stage, nextpc) ==
    LET exc == StageRaises(stage, wop[w][3])
    IN  IF exc # NoException
        THEN [emitted |-> Append(emitted[w], _fail(exc)), werr |-> exc,
              wpc |-> "done"]
        ELSE [emitted |-> PutLog(w, nextpc), werr |-> werr[w], wpc |-> nextpc]

\* tree = tools.parse_string_try_prelude(current_text, filename)
WorkerParse(w) ==
    /\ wpc[w] = "parse"
    /\ LET out == StageOutcome(w, "parse", "lint")
       IN  /\ emitted' = [emitted EXCEPT ![w] = out.emitted]
           /\ werr' = [werr EXCEPT ![w] = out.werr]
           /\ wpc' = [wpc EXCEPT ![w] = out.wpc]
    /\ UNCHANGED <<running, last_alarm_id, timers, run, board1, destroyed,
                   nworkers, sent, nrecv, nread, wop, wboard, logs,
                   reported, startBoard, aborted>>
    /\ UNCHANGED <<viewer, bvars, vvars, lvars>>

\* tools.lint(tree, strictness='lax')
WorkerLint(w) ==
    /\ wpc[w] = "lint"
    /\ LET out == StageOutcome(w, "lint", "compile")
       IN  /\ emitted' = [emitted EXCEPT ![w] = out.emitted]
           /\ werr' = [werr EXCEPT ![w] = out.werr]
           /\ wpc' = [wpc EXCEPT ![w] = out.wpc]
    /\ UNCHANGED <<running, last_alarm_id, timers, run, board1, destroyed,
                   nworkers, sent, nrecv, nread, wop, wboard, logs,
                   reported, startBoard, aborted>>
    /\ UNCHANGED <<viewer, bvars, vvars, lvars>>

\* compiled_program = tools.compile(tree)
WorkerCompile(w) ==
    /\ wpc[w] = "compile"
    /\ LET out == StageOutcome(w, "compile", "interp")
       IN  /\ emitted' = [emitted EXCEPT ![w] = out.emitted]
           /\ werr' = [werr EXCEPT ![w] = out.werr]
           /\ wpc' = [wpc EXCEPT ![w] = out.wpc]
    /\ UNCHANGED <<running, last_alarm_id, timers, run, board1, destroyed,
                   nworkers, sent, nrecv, nread, wop, wboard, logs,
                   reported, startBoard, aborted>>
    /\ UNCHANGED <<viewer, bvars, vvars, lvars>>

\* a worker that goes back to queue_in.get() after it answered
WorkerInterp_loop(w) ==
    /\ wpc[w] = "interp"
    /\ LET r == interp(wop[w][3], wboard[w])
       IN  /\ wboard' = [wboard EXCEPT ![w] = r.board]
           /\ IF r.exc # NoException
              THEN /\ emitted' = [emitted EXCEPT ![w] = Append(@, _fail(r.exc))]
                   /\ werr' = [werr EXCEPT ![w] = r.exc]
                   /\ wpc' = [wpc EXCEPT ![w] = "wait"]
              ELSE /\ emitted' = [emitted EXCEPT ![w] =
                                    Append(@, _ok(r.board, r.result, wop[w]))]
                   /\ wpc' = [wpc EXCEPT ![w] = "wait"]
                   /\ UNCHANGED werr
    /\ UNCHANGED <<running, last_alarm_id, timers, run, board1, destroyed,
                   nworkers, sent, nrecv, nread, wop, logs,
                   reported, startBoard, aborted>>
    /\ UNCHANGED <<viewer, bvars, vvars, lvars>>

\* res = tools.interp(compiled_program, board); self._ok(queue_out, board, res)
WorkerInterp(w) ==
    /\ wpc[w] = "interp"
    /\ LET r == interp(wop[w][3], wboard[w])
       IN  /\ wboard' = [wboard EXCEPT ![w] = r.board]
           /\ IF r.exc # NoException
              THEN /\ emitted' = [emitted EXCEPT ![w] = Append(@, _fail(r.exc))]
                   /\ werr' = [werr EXCEPT ![w] = r.exc]
                   /\ wpc' = [wpc EXCEPT ![w] = "done"]
              ELSE /\ emitted' = [emitted EXCEPT ![w] =
                                    Append(@, _ok(r.board, r.result, wop[w]))]
                   /\ wpc' = [wpc EXCEPT ![w] = "done"]
                   /\ UNCHANGED werr
    /\ UNCHANGED <<running, last_alarm_id, timers, run, board1, destroyed,
                   nworkers, sent, nrecv, nread, wop, logs,
                   reported, startBoard, aborted>>
    /\ UNCHANGED <<viewer, bvars, vvars, lvars>>


\* ---- the caller: GUI ----
InterruptedByUser ==
    Exception("SourceException", "Execution interrupted by the user", "fake_bof")

\* GUI._prepare_for_next_run that keeps the process and the queues it has
_prepare_for_next_run_same_worker(procs) ==
    [run |-> [running |-> FALSE, worker |-> run.worker],
     nworkers |-> nworkers,
     wpc |-> procs]

\* GUI._prepare_for_next_run: a new CurrentRun with a new worker, new queues
\* and a new, started process.  procs is the state of the processes so far.
_prepare_for_next_run(procs) ==
    [run |-> [running |-> FALSE, worker |-> nworkers + 1],
     nworkers |-> nworkers + 1,
     wpc |-> [procs EXCEPT ![nworkers + 1] = "wait"]]

\* GUI._running_end, with tm callbacks pending and _last_alarm_id = alarm
_running_end(tm, alarm) ==
    /\ running' = FALSE
    /\ timers' = IF alarm = "live" THEN tm - 1 ELSE tm
    /\ last_alarm_id' = "None"

Report(kind, exc, result) ==
    [worker |-> run.worker, kind |-> kind, exc |-> exc, result |-> result]

\* GUI.gobstones_fail_run
gobstones_fail_run(exception, procs, tm, alarm) ==
    /\ LET next == _prepare_for_next_run(procs)
       IN  /\ run' = next.run
           /\ nworkers' = next.nworkers
           /\ wpc' = next.wpc
    /\ reported' = Append(reported, Report("error", exception, <<>>))
    /\ _running_end(tm, alarm)

\* GUI.gobstones_end_run that keeps the worker it has
gobstones_end_run_no_prepare(result, procs, tm, alarm, lg) ==
    /\ logs' = [lg EXCEPT ![run.worker] = Append(@, "Program execution finished.")]
    /\ run' = [run EXCEPT !.running = FALSE]
    /\ nworkers' = nworkers
    /\ wpc' = procs
    /\ reported' = Append(reported, Report("result", NoException, result))
    /\ _running_end(tm, alarm)

\* GUI.gobstones_end_run; lg is what the loggers were handed so far
gobstones_end_run(result, procs, tm, alarm, lg) ==
    /\ logs' = [lg EXCEPT ![run.worker] = Append(@, "Program execution finished.")]
    /\ LET next == _prepare_for_next_run(procs)
       IN  /\ run' = next.run
           /\ nworkers' = next.nworkers
           /\ wpc' = next.wpc
    /\ reported' = Append(reported, Report("result", NoException, result))
    /\ _running_end(tm, alarm)

\* a gobstones_start_run that does not test _running
StartRun_unguarded ==
    /\ ~destroyed
    /\ nworkers < MaxWorkers
    /\ \E text \in EditorTexts :
        IF FALSE
        THEN UNCHANGED hvars
        ELSE LET next == IF run.running THEN _prepare_for_next_run(wpc)
                         ELSE [run |-> run, nworkers |-> nworkers, wpc |-> wpc]
                 w == next.run.worker
             IN  /\ running' = TRUE
                 /\ run' = [next.run EXCEPT !.running = TRUE]
                 /\ nworkers' = next.nworkers
                 /\ wpc' = next.wpc
                 /\ logs' = [logs EXCEPT ![w] = <<>>]
                 /\ sent' = [sent EXCEPT ![w] =
                               Append(@, <<"START", "Untitled", text,
                                           board_to_string(board1)>>)]
                 /\ timers' = timers + 1
                 /\ last_alarm_id' = "live"
                 /\ startBoard' = board1
                 /\ viewer' = TRUE
                 /\ UNCHANGED <<board1, destroyed, nrecv, emitted, nread, wop,
                                wboard, werr, reported, aborted>>
    /\ UNCHANGED <<bvars, vvars, lvars>>

\* GUI.gobstones_start_run.  A run is started while the worker its end
\* provisions is still among Workers.
StartRun ==
    /\ ~destroyed
    /\ nworkers < MaxWorkers
    /\ \E text \in EditorTexts :
        IF running
        THEN UNCHANGED hvars
        ELSE LET next == IF run.running THEN _prepare_for_next_run(wpc)
                         ELSE [run |-> run, nworkers |-> nworkers, wpc |-> wpc]
                 w == next.run.worker
             IN  /\ running' = TRUE
                 /\ run' = [next.run EXCEPT !.running = TRUE]
                 /\ nworkers' = next.nworkers
                 /\ wpc' = next.wpc
                 /\ logs' = [logs EXCEPT ![w] = <<>>]
                 /\ sent' = [sent EXCEPT ![w] =
                               Append(@, <<"START", "Untitled", text,
                                           board_to_string(board1)>>)]
                 /\ timers' = timers + 1
                 /\ last_alarm_id' = "live"
                 /\ startBoard' = board1
                 /\ viewer' = TRUE
                 /\ UNCHANGED <<board1, destroyed, nrecv, emitted, nread, wop,
                                wboard, werr, reported, aborted>>
    /\ UNCHANGED <<bvars, vvars, lvars>>

\* GUI.gobstones_continue_run, called by the timer
ContinueRun ==
    /\ ~destroyed
    /\ timers > 0
    /\ \E fired \in {"live", "other"} :
        /\ fired = "live" => last_alarm_id = "live"
        /\ fired = "other" => timers > (IF last_alarm_id = "live" THEN 1 ELSE 0)
        /\ LET tm == timers - 1
               alarm == IF fired = "live" THEN "stale" ELSE last_alarm_id
               w == run.worker
               q == SubSeq(emitted[w], nread[w] + 1, Len(emitted[w]))
               ends == {j \in 1..Len(q) : q[j][1] # "LOG"}
               k == IF ends = {} THEN 0
                    ELSE CHOOSE j \in ends : \A i \in ends : j <= i
               nlog == IF k = 0 THEN Len(q) ELSE k - 1
               lg == [logs EXCEPT ![w] = @ \o [j \in 1..nlog |-> q[j][2]]]
           IN  IF ~run.running
               THEN /\ timers' = tm
                    /\ last_alarm_id' = alarm
                    /\ UNCHANGED <<running, run, board1, nworkers, wpc, nread,
                                   logs, reported>>
               ELSE IF k = 0
               THEN \* queue_empty: poll again later
                    /\ nread' = [nread EXCEPT ![w] = @ + nlog]
                    /\ logs' = lg
                    /\ timers' = tm + 1
                    /\ last_alarm_id' = "live"
                    /\ UNCHANGED <<running, run, board1, nworkers, wpc, reported>>
               ELSE IF q[k][1] = "OK" /\ viewer
               THEN /\ nread' = [nread EXCEPT ![w] = @ + k]
                    /\ board1' = board_from_string(q[k][2]).board
                    /\ gobstones_end_run(q[k][3], wpc, tm, alarm, lg)
               ELSE IF q[k][1] = "FAIL"
               THEN /\ nread' = [nread EXCEPT ![w] = @ + k]
                    /\ logs' = lg
                    /\ gobstones_fail_run(Rebuild(q[k][2]), wpc, tm, alarm)
                    /\ UNCHANGED board1
               ELSE \* assert False, or self.viewer.board1 of an OK when
                    \* self.viewer is None: the callback dies
                    /\ nread' = [nread EXCEPT ![w] = @ + k]
                    /\ logs' = lg
                    /\ timers' = tm
                    /\ last_alarm_id' = alarm
                    /\ UNCHANGED <<running, run, board1, nworkers, wpc, reported>>
    /\ UNCHANGED <<destroyed, sent, nrecv, emitted, wop, wboard, werr,
                   startBoard, aborted>>
    /\ UNCHANGED <<viewer, bvars, vvars, lvars>>

\* GUI.gobstones_abort_run, pressed with or without an active run
AbortRun ==
    /\ ~destroyed
    /\ nworkers < MaxWorkers
    /\ LET procs == IF run.running THEN terminate_process(wpc, run.worker)
                    ELSE wpc
       IN  gobstones_fail_run(InterruptedByUser, procs, timers, last_alarm_id)
    /\ aborted' = IF run.running THEN aborted \cup {run.worker} ELSE aborted
    /\ UNCHANGED <<board1, destroyed, sent, nrecv, emitted, nread, wop, wboard,
                   werr, logs, startBoard>>
    /\ UNCHANGED <<viewer, bvars, vvars, lvars>>

\* GUI.close_viewer: the window of the viewer is closed
CloseViewer ==
    /\ ~destroyed
    /\ viewer
    /\ viewer' = FALSE
    /\ UNCHANGED <<running, last_alarm_id, timers, run, board1, destroyed,
                   nworkers, wpc, sent, nrecv, emitted, nread, wop, wboard,
                   werr, logs, reported, startBoard, aborted>>
    /\ UNCHANGED <<bvars, vvars, lvars>>

\* GUI.destroy and GUI._end_worker
Destroy ==
    /\ ~destroyed
    /\ destroyed' = TRUE
    /\ wpc' = IF run.running THEN terminate_process(wpc, run.worker) ELSE wpc
    /\ sent' = [sent EXCEPT ![run.worker] = Append(@, <<"EXIT">>)]
    /\ viewer' = FALSE
    /\ UNCHANGED <<running, last_alarm_id, timers, run, board1, nworkers,
                   nrecv, emitted, nread, wop, wboard, werr, logs, reported,
                   startBoard, aborted>>
    /\ UNCHANGED <<bvars, vvars, lvars>>

\* the boards the viewer may show when the program starts
HarnessBoards == {Board(<<1, 1>>)}

HarnessState(b) ==
    /\ running = FALSE
    /\ last_alarm_id = "None"
    /\ timers = 0
    /\ run = [running |-> FALSE, worker |-> 1]
    /\ board1 = b
    /\ destroyed = FALSE
    /\ nworkers = 1
    /\ wpc = [w \in Workers |-> IF w = 1 THEN "wait" ELSE "none"]
    /\ nrecv = [w \in Workers |-> 0]
    /\ emitted = [w \in Workers |-> <<>>]
    /\ nread = [w \in Workers |-> 0]
    /\ wop = [w \in Workers |-> <<>>]
    /\ wboard = [w \in Workers |-> Board(<<1, 1>>)]
    /\ werr = [w \in Workers |-> NoException]
    /\ logs = [w \in Workers |-> <<>>]
    /\ reported = <<>>
    /\ startBoard = b
    /\ aborted = {}
    /\ viewer = FALSE

HarnessIdle ==
    /\ HarnessState(Board(<<1, 1>>))
    /\ sent = [w \in Workers |-> <<>>]

(***************************************************************************)
(* Spec: the GUI and its worker processes.                                 *)
(***************************************************************************)
Init ==
    /\ \E b \in HarnessBoards : HarnessState(b)
    /\ sent = [w \in Workers |-> <<>>]
    /\ BoardIdle
    /\ VMIdle
    /\ LinkIdle

WorkerStep ==
    \E w \in Workers :
        \/ WorkerGet(w)
        \/ WorkerDecode(w)
        \/ WorkerParse(w)
        \/ WorkerLint(w)
        \/ WorkerCompile(w)
        \/ WorkerInterp(w)

Next ==
    \/ StartRun
    \/ ContinueRun
    \/ AbortRun
    \/ Destroy
    \/ WorkerStep

Spec == Init /\ [][Next]_vars

(***************************************************************************)
(* SpecWorker: one worker process handed any first message.                *)
(***************************************************************************)
\* the boards a START may carry, and a text that is no board
WorkerBoards ==
    {Board(<<1, 1>>), put_stone(Board(<<1, 1>>), ColorV(1)),
     Board(<<2, 1>>), Board(<<1, 2>>), put_stone(Board(<<2, 2>>), ColorV(0))}

BoardTexts == {board_to_string(b) : b \in WorkerBoards} \cup {<<"???">>}

FirstMessages ==
    {<<"START", "Untitled", text, repr>> : text \in Texts, repr \in BoardTexts}
        \cup {<<"EXIT">>, <<"PING">>}

WorkerInit ==
    /\ HarnessState(Board(<<1, 1>>))
    /\ \E m \in FirstMessages : sent = [w \in Workers |-> IF w = 1 THEN <<m>> ELSE <<>>]
    /\ BoardIdle
    /\ VMIdle
    /\ LinkIdle

SpecWorker == WorkerInit /\ [][WorkerStep]_vars

(***************************************************************************)
(* SpecBoard and SpecVM.                                                   *)
(***************************************************************************)
BoardInit ==
    /\ \E w \in 1..MaxSide, h \in 1..MaxSide :
        /\ size0 = <<w, h>>
        /\ \E p \in Positions(<<w, h>>) :
               gboard = [Board(<<w, h>>) EXCEPT !.head = p]
    /\ lastCall = [name |-> "none", arg |-> NoArg, err |-> NoError]
    /\ VMIdle
    /\ HarnessIdle
    /\ LinkIdle

BoardNext ==
    \/ PutStone
    \/ TakeStone
    \/ Move
    \/ GoToOrigin
    \/ ClearBoard

SpecBoard == BoardInit /\ [][BoardNext]_vars

VMSpecInit ==
    /\ VMInit
    /\ BoardIdle
    /\ HarnessIdle
    /\ LinkIdle

SpecVM == VMSpecInit /\ [][VMStep]_vars

(***************************************************************************)
(* SpecBuiltin: one builtin applied to arguments of any type.              *)
(***************************************************************************)
Ints == {IntV(n) : n \in (0 - MaxInt)..MaxInt}

Bools == {BoolV(FALSE), BoolV(TRUE)}

Scalars == Bools \cup Ints \cup Colors \cup Dirs

ListValues ==
    {ListV(<<>>), ListV(<<IntV(1)>>), ListV(<<IntV(1), IntV(2)>>),
     ListV(<<ColorV(0), ColorV(3)>>), ListV(<<ListV(<<>>)>>),
     ListV(<<ListV(<<IntV(1), IntV(2)>>), ListV(<<IntV(3)>>)>>)}

NoCall == [name |-> "none", args |-> <<>>, out |-> Return(NoArg), py |-> 2]

Applied(name, args, out, py) ==
    [name |-> name, args |-> args, out |-> out, py |-> py]

CallRelational ==
    /\ lastCall = NoCall
    /\ \E name \in RelOps, v1 \in Scalars, v2 \in Scalars, py \in PythonVersions :
          lastCall' = Applied(name, <<v1, v2>>, poly_cmp(v1, v2, name), py)
    /\ UNCHANGED <<gboard, size0>>
    /\ UNCHANGED <<vvars, hvars, lvars>>

CallArithmetic ==
    /\ lastCall = NoCall
    /\ \E name \in ArithOps, v1 \in Scalars, v2 \in Scalars, py \in PythonVersions :
          lastCall' = Applied(name, <<v1, v2>>, arith_op(name, <<v1, v2>>, py), py)
    /\ UNCHANGED <<gboard, size0>>
    /\ UNCHANGED <<vvars, hvars, lvars>>

CallLogical ==
    /\ lastCall = NoCall
    /\ \E name \in LogicalOps, v1 \in Scalars, v2 \in Scalars, py \in PythonVersions :
          LET args == IF name = "not" THEN <<v1>> ELSE <<v1, v2>>
          IN  lastCall' = Applied(name, args, logical_op(name, args), py)
    /\ UNCHANGED <<gboard, size0>>
    /\ UNCHANGED <<vvars, hvars, lvars>>

\* next, prev, opposite and unary- called by their own name
CallPolymorphic ==
    /\ lastCall = NoCall
    /\ \E name \in BUILTINS_POLYMORPHIC, v \in Scalars \cup ListValues,
          py \in PythonVersions :
          /\ name \in {"next", "prev"} => v.t # "List"
          /\ lastCall' = Applied(name, <<v>>,
                        CASE name = "next" -> Return(poly_next(v))
                          [] name = "prev" -> Return(poly_prev(v))
                          [] OTHER -> gbs_poly_opposite(v),
                        py)
    /\ UNCHANGED <<gboard, size0>>
    /\ UNCHANGED <<vvars, hvars, lvars>>

CallPolyOrd ==
    /\ lastCall = NoCall
    /\ \E v \in Scalars \cup ListValues, py \in PythonVersions :
          lastCall' = Applied("poly_ord", <<v>>, Return(poly_ord(v)), py)
    /\ UNCHANGED <<gboard, size0>>
    /\ UNCHANGED <<vvars, hvars, lvars>>

CallListOperation ==
    /\ lastCall = NoCall
    /\ \E name \in ListOps, lst \in ListValues, py \in PythonVersions :
          lastCall' = Applied(name, <<lst>>, list_operation(name, lst), py)
    /\ UNCHANGED <<gboard, size0>>
    /\ UNCHANGED <<vvars, hvars, lvars>>

BuiltinInit ==
    /\ \E size \in {<<1, 1>>, <<1, 2>>, <<2, 1>>} :
          /\ size0 = size
          /\ \E b \in {Board(size), put_stone(Board(size), ColorV(0))} : gboard = b
    /\ lastCall = NoCall
    /\ VMIdle
    /\ HarnessIdle
    /\ LinkIdle

BuiltinNext ==
    \/ CallRelational
    \/ CallArithmetic
    \/ CallLogical
    \/ CallPolymorphic
    \/ CallPolyOrd
    \/ CallListOperation

SpecBuiltin == BuiltinInit /\ [][BuiltinNext]_vars

(***************************************************************************)
(* Properties of the execution harness (Spec, SpecWorker).                 *)
(***************************************************************************)
\* the positions of the messages with a given tag among those w emitted
Emitted(w, tag) == {k \in 1..Len(emitted[w]) : emitted[w][k][1] = tag}

\* the reports made for the run of worker w
ReportsOf(w) == {k \in 1..Len(reported) : reported[k].worker = w}

\* C1: when gobstones_abort_run runs while a run is active, the caller not
\* having consumed an OK or FAIL of that run, the run ends with exactly one
\* reported error, the 'Execution interrupted by the user' error, and no OK
\* or FAIL the worker emitted for that run is ever processed:
\* gobstones_end_run is never called for it.
C1_Cancellation ==
    \A w \in aborted :
        /\ Cardinality(ReportsOf(w)) = 1
        /\ \A k \in ReportsOf(w) :
              /\ reported[k].kind = "error"
              /\ reported[k].exc = InterruptedByUser
        /\ \A k \in 1..nread[w] : emitted[w][k][1] = "LOG"
        /\ run.worker # w

\* a run was aborted whose worker had already emitted its OK, which stays
\* unread while the next run has ended with its result shown
C1_Witness ==
    \E w \in aborted :
        /\ \E k \in Emitted(w, "OK") : k > nread[w]
        /\ \E j \in 1..Len(reported) :
              reported[j].worker > w /\ reported[j].kind = "result"

\* C2: every START is sent to a freshly provisioned worker that received no
\* earlier message, no worker receives two STARTs, and after a run ends by
\* OK, FAIL or abort the caller has provisioned a new worker, with new
\* queues, before the next START is sent.
C2_FreshWorker ==
    /\ \A w \in Workers :
          \A k \in 1..Len(sent[w]) : sent[w][k][1] = "START" => k = 1
    /\ \A k \in 1..Len(reported) : reported[k].worker < run.worker
    /\ run.worker = nworkers
    /\ \A w \in Workers : w > nworkers => wpc[w] = "none" /\ sent[w] = <<>>
    /\ (~run.running /\ ~destroyed) =>
          /\ sent[run.worker] = <<>>
          /\ emitted[run.worker] = <<>>
          /\ wpc[run.worker] = "wait"

\* two runs were started, each on a worker of its own: one was aborted, the
\* other ended by OK
C2_Witness ==
    /\ Cardinality({w \in Workers : sent[w] # <<>> /\ sent[w][1][1] = "START"}) >= 2
    /\ aborted # {}
    /\ \E k \in 1..Len(reported) : reported[k].kind = "result"

\* C3: for every START a worker handles, if a stage of handling it, from
\* decoding the received board to interpreting, raises a classified error,
\* the worker emits exactly one FAIL carrying the error's class and its
\* (message, area) and no OK, and the caller rebuilds an error of that
\* class, message and area from it; for each START exactly one of OK and
\* FAIL is emitted.
C3_OneAnswer ==
    \A w \in Workers :
        (wop[w] # <<>> /\ wpc[w] \in {"done", "crashed"}) =>
            /\ Cardinality(Emitted(w, "OK")) + Cardinality(Emitted(w, "FAIL")) = 1
            /\ werr[w] # NoException =>
                  /\ Emitted(w, "OK") = {}
                  /\ \A k \in Emitted(w, "FAIL") :
                        /\ emitted[w][k][2] =
                              <<werr[w].cls, <<werr[w].msg, werr[w].area>>>>
                        /\ Rebuild(emitted[w][k][2]) = werr[w]

\* the worker has answered its START with an OK
OkEmitted(w) == Emitted(w, "OK") # {}

\* C4 as stated: after its OK the worker is idle, waiting for a fresh START
\* or EXIT, which it receives and handles.
C4_IdleAfterOk ==
    \A w \in Workers :
        OkEmitted(w) =>
            \/ wpc[w] = "wait"
            \/ nrecv[w] > 1

\* C4: on success the worker emits OK(serializedBoard, resultBindings)
\* exactly once, as the last message it emits, and with that its process has
\* ended: the START is the only message it ever takes, and a START or EXIT
\* sent to it afterwards stays unread on its queue.
C4_OneShot ==
    \A w \in Workers :
        OkEmitted(w) =>
            /\ Cardinality(Emitted(w, "OK")) = 1
            /\ Emitted(w, "OK") = {Len(emitted[w])}
            /\ emitted[w][Len(emitted[w])] =
                  <<"OK", board_to_string(wboard[w]), <<>>>>
            /\ wpc[w] = "done"
            /\ nrecv[w] = 1

\* an EXIT was sent to a worker after its OK and stays unread
C4_Witness ==
    \E w \in Workers :
        /\ OkEmitted(w)
        /\ Len(sent[w]) = 2
        /\ sent[w][2] = <<"EXIT">>
        /\ nrecv[w] = 1

\* the stage messages in the order the claim lists them
C5_Stages ==
    <<"Parsing.", "Performing semantic checks.", "Compiling.",
      "Starting program execution.">>

\* the number of LOG messages a worker at position pc has emitted at least
C5_LogsBefore(pc) ==
    CASE pc = "parse" -> 1
      [] pc = "lint" -> 2
      [] pc = "compile" -> 3
      [] pc = "interp" -> 4
      [] OTHER -> 0

C7_BoardInvariant ==
    /\ gboard.size = size0
    /\ gboard.head \in Positions(size0)
    /\ DOMAIN gboard.cells = Positions(size0)
    /\ \A p \in Positions(size0) :
          \A c \in 0..(NUM_COLORS - 1) : gboard.cells[p][c] >= 0

\* a Move off the grid has failed on a board that holds a stone, the head
\* away from the origin
C7_Witness ==
    /\ lastCall.name = "Move"
    /\ lastCall.err.text = "Cannot move to"
    /\ gboard.head # <<0, 0>>
    /\ TotalStones(gboard) > 0

\* C8: TakeStone(c) on a board with no stone of color c under the head fails
\* with the 'Cannot take stones of color c' runtime error and leaves the
\* whole board (stone counts and head) as it was; with a count > 0 it
\* succeeds and lowers exactly that count by one.
C8_TakeStone ==
    [][(lastCall'.name = "TakeStone" /\ lastCall'.arg.t = "Color") =>
        LET c == lastCall'.arg.v
        IN  IF gboard.cells[gboard.head][c] = 0
            THEN /\ lastCall'.err =
                       GbsRuntimeException("Cannot take stones of color", c, TRUE)
                 /\ gboard' = gboard
            ELSE /\ lastCall'.err = NoError
                 /\ gboard'.head = gboard.head
                 /\ gboard'.size = gboard.size
                 /\ gboard'.cells[gboard.head][c] = gboard.cells[gboard.head][c] - 1
                 /\ \A p \in Positions(gboard.size) :
                       \A k \in 0..(NUM_COLORS - 1) :
                           (p # gboard.head \/ k # c) =>
                               gboard'.cells[p][k] = gboard.cells[p][k]
      ]_vars

\* TakeStone has failed for want of a stone of its color under the head, on
\* a board that holds a stone
C8_Witness ==
    /\ lastCall.name = "TakeStone"
    /\ lastCall.err.text = "Cannot take stones of color"
    /\ TotalStones(gboard) > 0

\* the unit deltas as the claim lists them
C9_Delta(o) ==
    CASE o = 0 -> <<1, 0>>
      [] o = 1 -> <<0, 1>>
      [] o = 2 -> <<-1, 0>>
      [] o = 3 -> <<0, -1>>

\* C9: when the unit delta of direction d (0:(+1,0), 1:(0,+1), 2:(-1,0),
\* 3:(0,-1)) leads from the head off the grid, canMove(d) is false and
\* Move(d) fails with the 'Cannot move to d' runtime error, head and stone
\* counts unchanged; otherwise canMove(d) is true and Move(d) changes the
\* head by exactly that delta.
C9_Move ==
    [][(lastCall'.name = "Move" /\ lastCall'.arg.t = "Dir") =>
        LET d == lastCall'.arg
            target == <<gboard.head[1] + C9_Delta(d.v)[1],
                        gboard.head[2] + C9_Delta(d.v)[2]>>
        IN  IF target \notin Positions(gboard.size)
            THEN /\ board_can_move(gboard, d) =
                       [value |-> BoolV(FALSE), err |-> NoError]
                 /\ lastCall'.err = GbsRuntimeException("Cannot move to", d.v, TRUE)
                 /\ gboard' = gboard
            ELSE /\ board_can_move(gboard, d) =
                       [value |-> BoolV(TRUE), err |-> NoError]
                 /\ lastCall'.err = NoError
                 /\ gboard' = [gboard EXCEPT !.head = target]
      ]_vars

\* the head stands on the far edge of a grid with more than one row and
\* column, and the Move that would leave the grid has failed
C9_Witness ==
    /\ lastCall.name = "Move"
    /\ lastCall.err = GbsRuntimeException("Cannot move to", 0, TRUE)
    /\ gboard.size = <<2, 2>>
    /\ gboard.head[1] = 1

(***************************************************************************)
(* Properties of the compiled repeatWith (SpecVM).                         *)
(***************************************************************************)
\* the integers L..U in order; empty when L > U
C10_Range(L, U) == [k \in 1..(U - L + 1) |-> IntV(L + k - 1)]

\* C10: the code of 'repeatWith i in L..U {Body}' runs Body with i taking
\* the values L, L+1, ..., U in that order, U-L+1 times in all, and not at
\* all when L > U: what Body has seen is always an initial part of L..U,
\* and the whole of it once the code has run to its end.
C10_RepeatWith ==
    LET expected == C10_Range(loopIn.lower, loopIn.upper)
    IN  /\ vmerr = NoError
        /\ Len(trace) <= Len(expected)
        /\ trace = SubSeq(expected, 1, Len(trace))
        /\ Finished => trace = expected
        /\ Executing \/ Finished

\* repeatWith i in 1..5 has run to its end and its body ran 5 times
C10_Witness ==
    /\ Finished
    /\ loopIn.lower = 1
    /\ loopIn.upper = 5
    /\ trace = <<IntV(1), IntV(2), IntV(3), IntV(4), IntV(5)>>


(***************************************************************************)
(* Compiled expressions and commands run by the stack machine (SpecProg).  *)
(***************************************************************************)
Lit(tok) == [kind |-> "literal", tok |-> tok]

TrueTok == <<"T", "r", "u", "e">>

FalseTok == <<"F", "a", "l", "s", "e">>

\* Probe(e): a call of the user function that records its argument
ProbeTree(e) ==
    [kind |-> "funcCall", name |-> "Probe", args |-> <<e>>,
     annotated |-> FALSE, type_annotation |-> <<>>]

\* 1 == True: a relational operation that raises when it is evaluated
BoomTree ==
    [kind |-> "relop", op |-> "==", left |-> Lit(IntToken(1)),
     right |-> Lit(TrueTok)]

BinTree(kind, left, right) == [kind |-> kind, left |-> left, right |-> right]

BoolLits == {Lit(TrueTok), Lit(FalseTok)}

Connectives == {"and", "or"}

\* left operands: literals, probed literals, and nested && / ||
LeftOperands ==
    BoolLits
    \cup {ProbeTree(l) : l \in BoolLits}
    \cup {BinTree(k, l, ProbeTree(r)) : k \in Connectives, l \in BoolLits, r \in BoolLits}

\* right operands: probed literals and the raising operation
RightOperands == {ProbeTree(l) : l \in BoolLits} \cup {BoomTree}

ExprTrees ==
    {BinTree(k, a, b) : k \in Connectives, a \in LeftOperands, b \in RightOperands}

ProgramState(input, instrs) ==
    /\ loopIn = input
    /\ code = instrs
    /\ ip = 1
    /\ stack = <<>>
    /\ env = <<>>
    /\ trace = <<>>
    /\ vmerr = NoError

ExprInit ==
    \E tree \in ExprTrees :
        ProgramState([form |-> "expr", tree |-> tree],
                     compile_expression(tree, CompilerState).code)

\* case (Probe(v)) of lits1 -> {Visit(1)}; lits2 -> {Visit(2)}; _ -> {Visit(0)}
\* followed by Visit(9)
VisitCmd(n) ==
    [kind |-> "procCall", name |-> "Visit", args |-> <<Lit(IntToken(n))>>]

BodyOf(n) == [kind |-> "block", cmds |-> <<VisitCmd(n)>>]

CaseTree(v, lits1, lits2) ==
    [kind |-> "case",
     value |-> ProbeTree(Lit(IntToken(v))),
     branches |-> <<[kind |-> "branch", lits |-> lits1, body |-> BodyOf(1)],
                    [kind |-> "branch", lits |-> lits2, body |-> BodyOf(2)],
                    [kind |-> "defaultBranch", body |-> BodyOf(0)]>>]

MaxLit == 3

\* the literal lists of a branch: one or two integer literals
LitLists ==
    {<<IntToken(a)>> : a \in 0..MaxLit}
    \cup {<<IntToken(a), IntToken(b)>> : a \in 0..MaxLit, b \in 0..MaxLit}

CaseInit ==
    \E v \in 0..MaxLit, lits1 \in LitLists, lits2 \in LitLists :
        ProgramState([form |-> "case", value |-> v, lits1 |-> lits1, lits2 |-> lits2],
                     compile_commands(<<CaseTree(v, lits1, lits2), VisitCmd(9)>>,
                                      CompilerState).code)

\* (x, y, z) := Tuple(r1, r2, r3), and its shorter forms
TupleNames == <<"x", "y", "z">>

TupleTree(rs) ==
    [kind |-> "assignVarTuple1",
     vars |-> SubSeq(TupleNames, 1, Len(rs)),
     expr |-> [kind |-> "funcCall", name |-> "Tuple",
               args |-> [k \in 1..Len(rs) |-> Lit(IntToken(rs[k]))],
               annotated |-> FALSE, type_annotation |-> <<>>]]

ResultLists ==
    UNION {[1..n -> 0..MaxLit] : n \in 1..3}

TupleInit ==
    \E rs \in ResultLists :
        ProgramState([form |-> "tuple", results |-> rs],
                     compile_commands(<<TupleTree(rs)>>, CompilerState).code)

\* f(x) and -x for a polymorphic f, with x bound to a value of any basic
\* type, the call site annotated with the type of x or not annotated
PolyTree(f, annotated, type) ==
    IF f = "unary-"
    THEN [kind |-> "unaryMinus", arg |-> [kind |-> "varName", name |-> "x"],
          annotated |-> annotated, type_annotation |-> <<type>>]
    ELSE [kind |-> "funcCall", name |-> f,
          args |-> <<[kind |-> "varName", name |-> "x"]>>,
          annotated |-> annotated, type_annotation |-> <<type>>]

BasicValues == {BoolV(FALSE), BoolV(TRUE)} \cup {IntV(n) : n \in (0 - 1)..1}
               \cup Colors \cup Dirs

PolyInit ==
    \E f \in BUILTINS_POLYMORPHIC, v \in BasicValues, annotated \in BOOLEAN :
        /\ loopIn = [form |-> "poly", f |-> f, arg |-> v, annotated |-> annotated]
        /\ code = compile_expression(PolyTree(f, annotated, poly_typeof(v)),
                                     CompilerState).code
        /\ ip = 1
        /\ stack = <<>>
        /\ env = Bind(<<>>, VarName("x"), v)
        /\ trace = <<>>
        /\ vmerr = NoError

\* the variable x of the programs below
VarX == [kind |-> "varName", name |-> "x"]

\* conditions: x, x && True, x || False
Conditions ==
    {VarX, BinTree("and", VarX, Lit(TrueTok)), BinTree("or", VarX, Lit(FalseTok))}

\* x := False
ClearX == [kind |-> "assignVarName", var |-> "x", expr |-> Lit(FalseTok)]

IfTree(cond, then, else) ==
    [kind |-> "if", cond |-> cond, then |-> then, else |-> else]

WhileTree(cond, body) == [kind |-> "while", cond |-> cond, body |-> body]

\* case (v) of 1 -> {Visit(1)}, with a default branch or without
ShortCaseTree(v, default) ==
    [kind |-> "case",
     value |-> Lit(IntToken(v)),
     branches |->
        <<[kind |-> "branch", lits |-> <<IntToken(1)>>, body |-> BodyOf(1)]>>
        \o (IF default THEN <<[kind |-> "defaultBranch", body |-> BodyOf(0)]>>
            ELSE <<>>)]

\* one command of every shape
Commands ==
    {[kind |-> "Skip"], VisitCmd(1), ClearX, TupleTree(<<1, 2>>)}
    \cup {IfTree(c, BodyOf(1), NoElse) : c \in Conditions}
    \cup {IfTree(c, BodyOf(1), BodyOf(2)) : c \in Conditions}
    \cup {WhileTree(c, [kind |-> "block", cmds |-> <<VisitCmd(3), ClearX>>]) :
              c \in Conditions}
    \cup {RepeatWithTree(1, 2, "none"), RepeatWithTree(2, 1, "Int")}
    \cup {ShortCaseTree(v, default) : v \in 0..1, default \in BOOLEAN}

\* two commands in a row, the first possibly inside an if or a while
Routines ==
    {<<c1, c2>> : c1 \in Commands, c2 \in Commands}
    \cup {<<IfTree(VarX, [kind |-> "block", cmds |-> <<c1>>], NoElse), c2>> :
              c1 \in Commands, c2 \in {VisitCmd(9)}}
    \cup {<<WhileTree(VarX, [kind |-> "block", cmds |-> <<c1, ClearX>>]), c2>> :
              c1 \in Commands, c2 \in {VisitCmd(9)}}

\* the body of a routine, run with x bound to either truth value
CmdInit ==
    \E cmds \in Routines, x \in BOOLEAN :
        /\ loopIn = [form |-> "cmds", cmds |-> cmds,
                     second |-> Len(compile_commands(<<cmds[1]>>,
                                                     CompilerState).code) + 1]
        /\ code = compile_commands(cmds, CompilerState).code
        /\ ip = 1
        /\ stack = <<>>
        /\ env = Bind(<<>>, VarName("x"), BoolV(x))
        /\ trace = <<>>
        /\ vmerr = NoError

\* Tuple(1, ..., n): a function call with n results
CallInit ==
    \E n \in 1..3 :
        ProgramState([form |-> "call", nresults |-> n],
                     compile_expression(TupleTree([k \in 1..n |-> k]).expr,
                                        CompilerState).code)

ProgInit ==
    /\ ExprInit \/ CaseInit \/ TupleInit \/ PolyInit \/ CmdInit \/ CallInit
    /\ BoardIdle
    /\ HarnessIdle
    /\ LinkIdle

ProgStep ==
    \/ ExecPushConst
    \/ ExecPushVar
    \/ ExecAssign
    \/ ExecDelVar
    \/ ExecLabel
    \/ ExecJump
    \/ ExecJumpIfFalse
    \/ ExecJumpIfNotIn
    \/ ExecCall

SpecProg == ProgInit /\ [][ProgStep]_vars

(***************************************************************************)
(* Properties of compiled expressions and commands (SpecProg).             *)
(***************************************************************************)
\* the value, the error and the probes of an expression evaluated with
\* short-circuiting connectives
RECURSIVE C11_Eval(_)
C11_Eval(tree) ==
    CASE tree.kind = "literal" ->
            [value |-> parse_literal(tree.tok), raises |-> FALSE, probes |-> <<>>]
      [] tree.kind = "funcCall" ->
            LET a == C11_Eval(tree.args[1])
            IN  [a EXCEPT !.probes = Append(@, a.value)]
      [] tree.kind = "relop" ->
            [value |-> NoArg, raises |-> TRUE, probes |-> <<>>]
      [] tree.kind \in Connectives ->
            LET a == C11_Eval(tree.left)
                b == C11_Eval(tree.right)
                decided == IF tree.kind = "and" THEN BoolV(FALSE) ELSE BoolV(TRUE)
            IN  IF a.raises \/ a.value = decided THEN a
                ELSE [b EXCEPT !.probes = a.probes \o @]

C11_IsExpr == loopIn.form = "expr"

C12_Contains(lits, v) == \E k \in 1..Len(lits) : lits[k] = IntToken(v)

\* the body the case has to run: the first branch in source order whose
\* literals contain the scrutinee's value, or the default (0)
C12_Chosen ==
    IF C12_Contains(loopIn.lits1, loopIn.value) THEN 1
    ELSE IF C12_Contains(loopIn.lits2, loopIn.value) THEN 2
    ELSE 0

\* C12: a case evaluates its scrutinee exactly once (into a temporary),
\* runs exactly one body, that of the first branch in source order whose
\* literal set contains the value or else the default body, and then
\* control continues after the case.
C12_Case ==
    loopIn.form = "case" =>
        LET expected == <<IntV(loopIn.value), IntV(C12_Chosen), IntV(9)>>
        IN  /\ vmerr = NoError
            /\ Executing \/ Finished
            /\ Len(trace) <= 3
            /\ trace = SubSeq(expected, 1, Len(trace))
            /\ Finished => trace = expected /\ stack = <<>>

\* case (2) of 1, 2 -> B1; 2 -> B2; _ -> Bd  has run B1 only and gone on
C12_Witness ==
    /\ loopIn.form = "case"
    /\ loopIn.value = 2
    /\ loopIn.lits1 = <<IntToken(1), IntToken(2)>>
    /\ loopIn.lits2 = <<IntToken(2)>>
    /\ Finished
    /\ trace = <<IntV(2), IntV(1), IntV(9)>>

\* C13: the code of (v1, ..., vn) := f(...) binds each vi to the i-th
\* result ri of f (the names being distinct), and leaves nothing on the
\* operand stack.
C13_TupleAssign ==
    loopIn.form = "tuple" =>
        /\ vmerr = NoError
        /\ Executing \/ Finished
        /\ Finished =>
            /\ stack = <<>>
            /\ \A k \in 1..Len(loopIn.results) :
                /\ VarName(TupleNames[k]) \in DOMAIN env
                /\ env[VarName(TupleNames[k])] = IntV(loopIn.results[k])

\* (x, y, z) := Tuple(1, 2, 3) has run: x = 1, y = 2, z = 3
C13_Witness ==
    /\ loopIn.form = "tuple"
    /\ loopIn.results = <<1, 2, 3>>
    /\ Finished
    /\ env[VarName("x")] = IntV(1)
    /\ env[VarName("y")] = IntV(2)
    /\ env[VarName("z")] = IntV(3)


\* what the polymorphic builtin f computes for the value v
C14_Result(f, v) ==
    CASE f = "next" -> Return(poly_next(v))
      [] f = "prev" -> Return(poly_prev(v))
      [] f \in {"opposite", "unary-"} -> gbs_poly_opposite(v)

\* C14: for every polymorphic builtin f (next, prev, opposite, unary-) and
\* basic type T, a call site annotated with T compiles to a call of f@T, a
\* call site with no annotation to a call of f, and for every argument of
\* type T both calls return the same result (or raise the same error).
C14_PolyDispatch ==
    loopIn.form = "poly" =>
        LET expected == C14_Result(loopIn.f, loopIn.arg)
            site == code[Len(code)]
        IN  /\ site.op = "call"
            /\ site.nargs = 1
            /\ site.name \in BUILTIN_NAMES
            /\ site.name = IF loopIn.annotated
                           THEN <<loopIn.f, poly_typeof(loopIn.arg)>>
                           ELSE <<loopIn.f>>
            /\ Finished => expected.err = NoError /\ stack = <<expected.value>>
            /\ vmerr # NoError => vmerr = expected.err
            /\ (ip = Len(code) /\ vmerr = NoError) \/ Finished
               \/ vmerr # NoError \/ ip = 1

\* next(x) annotated with Color, x being Color3, has run next@Color and
\* returned Color0
C14_Witness ==
    /\ loopIn.form = "poly"
    /\ loopIn.f = "next"
    /\ loopIn.annotated
    /\ loopIn.arg = ColorV(3)
    /\ code[Len(code)].name = <<"next", "Color">>
    /\ Finished
    /\ stack = <<ColorV(0)>>


(***************************************************************************)
(* Properties of the builtins (SpecBuiltin).                               *)
(***************************************************************************)
C15_Enums == Colors \cup Dirs

\* C15: opposite(opposite(d)) == d for every direction d, opposite(d)
\* being the direction of ordinal (ord(d) + 2) mod 4; next(prev(e)) == e
\* for every color and direction e, next and prev wrapping around modulo 4;
\* the results are of the same enumerated type as the argument.
C15_EnumAlgebra ==
    (lastCall.name \in {"next", "prev", "opposite"} /\ lastCall.args[1] \in C15_Enums) =>
        LET e == lastCall.args[1]
            r == lastCall.out.value
        IN  /\ lastCall.name = "opposite" /\ e \in Dirs =>
                /\ lastCall.out.err = NoError
                /\ r = DirV((e.v + 2) % 4)
                /\ enum_eq(gbs_poly_opposite(r).value, e)
            /\ lastCall.name = "prev" =>
                /\ lastCall.out.err = NoError
                /\ r = Val(e.t, (e.v + 3) % 4)
                /\ r \in C15_Enums
                /\ enum_eq(poly_next(r), e)
            /\ lastCall.name = "next" =>
                /\ lastCall.out.err = NoError
                /\ r = Val(e.t, (e.v + 1) % 4)
                /\ r \in C15_Enums
                /\ enum_eq(poly_prev(r), e)

\* prev of the first color has wrapped around to the last one
C15_Witness ==
    /\ lastCall.name = "prev"
    /\ lastCall.args = <<ColorV(0)>>
    /\ lastCall.out.value = ColorV(3)

\* the relational operator applied to two ordinals
C16_Holds(name, a, b) ==
    CASE name = "==" -> a = b
      [] name = "/=" -> a # b
      [] name = "<"  -> a < b
      [] name = "<=" -> a <= b
      [] name = ">=" -> a >= b
      [] name = ">"  -> a > b

\* C16: a relational builtin applied to scalars of different types fails
\* with the type-mismatch runtime error (Color0 == North fails although
\* both ordinals are 0); applied to scalars of the same type it returns the
\* relational operator applied to the two ordinals.  The board is unchanged.
C16_Relational ==
    [][lastCall'.name \in RelOps =>
        LET v1 == lastCall'.args[1]
            v2 == lastCall'.args[2]
            out == lastCall'.out
        IN  /\ gboard' = gboard
            /\ IF v1.t # v2.t
               THEN /\ out.err.cls = "GbsRuntimeException"
                    /\ out.err.text =
                         "Relational operation between values of different types"
               ELSE /\ out.err = NoError
                    /\ out.value = BoolV(C16_Holds(lastCall'.name, v1.v, v2.v))
      ]_vars

\* Color0 == North has failed with the type-mismatch error
C16_Witness ==
    /\ lastCall.name = "=="
    /\ lastCall.args = <<ColorV(0), DirV(0)>>
    /\ lastCall.out.err.text =
         "Relational operation between values of different types"

\* the integers of a value in order: the ordinal of a scalar, the spliced
\* integers of the elements of a list
RECURSIVE C17_Flat(_)
C17_Flat(value) ==
    IF value.t = "List"
    THEN LET splice[k \in 0..Len(value.v)] ==
                 IF k = 0 THEN <<>>
                 ELSE splice[k - 1] \o C17_Flat(value.v[k])
         IN  splice[Len(value.v)]
    ELSE <<PyInt(value.v)>>

\* C17: poly_ord(v) is a flat sequence of integers: the one-element
\* sequence of its ordinal for a scalar, the concatenation of poly_ord of
\* its elements for a list.
C17_FlatOrd ==
    lastCall.name = "poly_ord" =>
        lastCall.out.value = PyList(C17_Flat(lastCall.args[1]))

\* C18: an arithmetic builtin fails with the runtime error of arithmetic
\* on non-numeric values whenever an operand is not an Int, whatever the
\* other operand and the operator (True div 0 is the type error, not a
\* division by zero); a logical builtin fails with the runtime error of
\* logic on non-boolean values whenever an operand is not a Bool (&& on
\* False and 3 fails rather than returning False).
C18_OperandTypes ==
    /\ (lastCall.name \in ArithOps
        /\ \E k \in 1..Len(lastCall.args) : lastCall.args[k].t # "Int") =>
            /\ lastCall.out.err.cls = "GbsRuntimeException"
            /\ lastCall.out.err.text = "Arithmetic operation over non-numeric values"
    /\ (lastCall.name \in LogicalOps
        /\ \E k \in 1..Len(lastCall.args) : lastCall.args[k].t # "Bool") =>
            /\ lastCall.out.err.cls = "GbsRuntimeException"
            /\ lastCall.out.err.text = "Logical operation over non-boolean values"

\* && applied to False and 3 has failed with the logical type error
C18_Witness ==
    /\ lastCall.name = "&&"
    /\ lastCall.args = <<BoolV(FALSE), IntV(3)>>
    /\ lastCall.out.err.text = "Logical operation over non-boolean values"

\* C19: for Int operands, div and mod fail with 'Division by zero' exactly
\* when the divisor is 0, ^ fails with 'Negative exponent' exactly when the
\* exponent is negative, every other call returns a value without error,
\* and the board is unchanged in every case.
C19_ArithErrors ==
    [][(lastCall'.name \in {"div", "mod", "^"}
        /\ lastCall'.args[1].t = "Int" /\ lastCall'.args[2].t = "Int") =>
        LET y == lastCall'.args[2].v
            out == lastCall'.out
            fails == IF lastCall'.name = "^" THEN y < 0 ELSE y = 0
        IN  /\ gboard' = gboard
            /\ IF fails
               THEN /\ out.err.cls = "GbsRuntimeException"
                    /\ out.err.text = IF lastCall'.name = "^"
                                      THEN "Negative exponent"
                                      ELSE "Division by zero"
               ELSE /\ out.err = NoError
                    /\ out.value # NoArg
      ]_vars

\* 3 mod 0 has failed with 'Division by zero'
C19_Witness ==
    /\ lastCall.name = "mod"
    /\ lastCall.args = <<IntV(3), IntV(0)>>
    /\ lastCall.out.err.text = "Division by zero"

\* C20: every runtime error a builtin raises carries a backtrace captured
\* when it is raised: type mismatches, division by zero, negative exponent
\* and the empty list alike.
C20_Backtrace ==
    lastCall.out.err # NoError => lastCall.out.err.bt


(***************************************************************************)
(* SpecLink: compiling a chain of modules (lang/gbs_compiler.py 52-131).   *)
(* Module k of the chain imports routines from module k + 1 only; a        *)
(* GbsCompiledProgram is referred to by the index of its module, a         *)
(* GbsCompiledCode by the definition it was compiled from.                 *)
(***************************************************************************)
MaxModules == 3

RoutineNames == {"f", "g"}

\* GbsCompiledCode(tree, prfn, name, params) of the definition of name in
\* module k
GbsCompiledCode(k, name) == [name |-> name, tree |-> <<"def", k, name>>]

\* GbsCompiledProgram(tree, module_prefix): no routines linked or defined yet
GbsCompiledProgram(k) ==
    [module |-> k, routines |-> <<>>, external_routines |-> <<>>]

NoCode == [module |-> 0, routines |-> <<>>, external_routines |-> <<>>]

SourceException(cls, msg, area) == [cls |-> cls, msg |-> msg, area |-> area]

NotRaised == [cls |-> "none", msg |-> <<>>, area |-> <<>>, at |-> 0]

\* module_handler.reraise(new_class, exception, msg, area): the exception
\* is raised again as new_class at area, its message after msg
reraise(new_class, exception, msg, area) ==
    SourceException(new_class, msg \o exception.msg, area)

\* compile_imports that links a re-exported routine to the module it is
\* imported from
compile_imports_relink(imports, mdl_name, mdl_code) ==
    [rtn \in imports |->
        IF rtn \in DOMAIN mdl_code.routines
        THEN <<mdl_name, mdl_code.routines[rtn]>>
        ELSE <<mdl_name, mdl_code.external_routines[rtn][2]>>]

\* compile_imports: the external_routines of a module importing the names
\* imports from module mdl_name, whose compiled code is mdl_code
compile_imports(imports, mdl_name, mdl_code) ==
    [rtn \in imports |->
        IF rtn \in DOMAIN mdl_code.routines
        THEN <<mdl_name, mdl_code.routines[rtn]>>
        ELSE mdl_code.external_routines[rtn]]

\* compile_defs: routines[name] of every definition of module k
compile_defs(k, defs) == [name \in defs |-> GbsCompiledCode(k, name)]

\* compile_program after compile_imported_modules went well
compile_program(k, tree, codes) ==
    [GbsCompiledProgram(k) EXCEPT
        !.external_routines =
            IF tree.imports = {} THEN <<>>
            ELSE compile_imports(tree.imports, k + 1, codes[k + 1]),
        !.routines = compile_defs(k, tree.defs)]

\* compile_imported_modules that lets the exception of the imported module
\* through as it is
compile_imported_modules_unwrapped(k, exception) == exception

\* compile_imported_modules of module k when compile_program of the module
\* it imports raised exception
compile_imported_modules(k, exception) ==
    reraise("GbsCompileException", exception,
            <<"Error compiling module", k + 1>>, <<"imports", k>>)

\* what a name imported from module k + 1 may be
Exported(trees, k) ==
    IF k > Len(trees) THEN {} ELSE trees[k].defs \cup trees[k].imports

ModuleTrees ==
    [defs : SUBSET RoutineNames, imports : SUBSET RoutineNames,
     broken : BOOLEAN]

\* chains the parser and the linter accept: an import names a routine the
\* next module defines or imports, and no module defines what it imports
Chains ==
    UNION {{ms \in [1..n -> ModuleTrees] :
               \A k \in 1..n :
                   /\ ms[k].imports \subseteq Exported(ms, k + 1)
                   /\ ms[k].imports \cap ms[k].defs = {}}
           : n \in 1..MaxModules}

LinkInit ==
    /\ modules \in Chains
    /\ compiled_code = [k \in 1..Len(modules) |-> NoCode]
    /\ raised = NotRaised
    /\ BoardIdle
    /\ VMIdle
    /\ HarnessIdle

\* the module whose imports are all compiled and which is not compiled yet
NextModule ==
    CHOOSE k \in 1..Len(modules) :
        /\ compiled_code[k] = NoCode
        /\ \A j \in (k + 1)..Len(modules) : compiled_code[j] # NoCode

\* compile_program of the next module, called by compile_imported_modules
\* of its importer, which registers the code with set_compiled_code; a
\* broken module raises from its own definitions
CompileModule ==
    /\ raised.at = 0
    /\ \E k \in 1..Len(modules) : compiled_code[k] = NoCode
    /\ LET k == NextModule IN
        IF modules[k].broken
        THEN /\ raised' = [cls |-> "GbsCompileException",
                           msg |-> <<"broken", k>>,
                           area |-> <<"defs", k>>, at |-> k]
             /\ UNCHANGED compiled_code
        ELSE /\ compiled_code' =
                    [compiled_code EXCEPT
                        ![k] = compile_program(k, modules[k], compiled_code)]
             /\ UNCHANGED raised
    /\ UNCHANGED <<modules, bvars, vvars, hvars>>

\* the except clause of compile_imported_modules in the importer of the
\* module the exception left
Reraise ==
    /\ raised.at > 1
    /\ LET k == raised.at - 1
           exception == compile_imported_modules(
                            k, SourceException(raised.cls, raised.msg,
                                               raised.area)) IN
        raised' = [cls |-> exception.cls, msg |-> exception.msg,
                   area |-> exception.area, at |-> k]
    /\ UNCHANGED <<modules, compiled_code, bvars, vvars, hvars>>

LinkNext ==
    \/ CompileModule
    \/ Reraise

SpecLink == LinkInit /\ [][LinkNext]_vars

\* C21: every external routine of every compiled module is a pair (P, R)
\* where P is compiled, defines the routine itself and R is P.routines of
\* that name; a routine the imported module defines is linked to that
\* module, a routine it re-exports keeps the imported module's own pair.
C21_Linked ==
    \A k \in 1..Len(modules) :
        compiled_code[k] # NoCode =>
            /\ DOMAIN compiled_code[k].external_routines = modules[k].imports
            /\ \A name \in modules[k].imports :
                LET pair == compiled_code[k].external_routines[name]
                    P == pair[1]
                    R == pair[2] IN
                /\ P \in (k + 1)..Len(modules)
                /\ name \in modules[P].defs
                /\ compiled_code[P] # NoCode
                /\ R = compiled_code[P].routines[name]
                /\ name \in modules[k + 1].defs => P = k + 1
                /\ name \notin modules[k + 1].defs =>
                       pair = compiled_code[k + 1].external_routines[name]

\* the first module links f through a re-exporting module to the third
C21_Witness ==
    /\ Len(modules) = 3
    /\ compiled_code[1] # NoCode
    /\ "f" \in modules[1].imports
    /\ "f" \notin modules[2].defs
    /\ compiled_code[1].external_routines["f"][1] = 3

\* the deepest broken module of the chain: the first one to fail
C22_Failed ==
    CHOOSE k \in 1..Len(modules) :
        /\ modules[k].broken
        /\ \A j \in (k + 1)..Len(modules) : ~modules[j].broken

\* C22: when compile_program of an imported module fails, every importer
\* up the chain fails too: the exception is raised again as a
\* GbsCompileException, like the original, located at the import section
\* of the importer with the original message kept at its end; no code is
\* registered for the failed module, and neither it nor any module above
\* it gets its imports or definitions compiled.
C22_ImportFailure ==
    raised.at # 0 =>
        LET o == C22_Failed
            n == Len(raised.msg) IN
        /\ modules[o].broken
        /\ raised.at <= o
        /\ \A k \in 1..o : compiled_code[k] = NoCode
        /\ raised.cls = "GbsCompileException"
        /\ SubSeq(raised.msg, n - 1, n) = <<"broken", o>>
        /\ raised.at < o =>
               /\ raised.area = <<"imports", raised.at>>
               /\ SubSeq(raised.msg, 1, 2) =
                      <<"Error compiling module", raised.at + 1>>
        /\ raised.at > 1 => ENABLED Reraise

\* the failure of the third module has reached the first
C22_Witness ==
    /\ Len(modules) = 3
    /\ modules[3].broken
    /\ raised.at = 1
    /\ raised.area = <<"imports", 1>>


(***************************************************************************)
(* SpecWire: the GUI and its workers when each of the two queues of the    *)
(* first worker already holds a message that is none of the protocol's.    *)
(***************************************************************************)
Foreign == <<"PING">>

WireInit ==
    /\ running = FALSE
    /\ last_alarm_id = "None"
    /\ timers = 0
    /\ run = [running |-> FALSE, worker |-> 1]
    /\ board1 = Board(<<1, 1>>)
    /\ destroyed = FALSE
    /\ nworkers = 1
    /\ wpc = [w \in Workers |-> IF w = 1 THEN "wait" ELSE "none"]
    /\ nrecv = [w \in Workers |-> 0]
    /\ sent = [w \in Workers |-> IF w = 1 THEN <<Foreign>> ELSE <<>>]
    /\ emitted = [w \in Workers |-> IF w = 1 THEN <<Foreign>> ELSE <<>>]
    /\ nread = [w \in Workers |-> 0]
    /\ wop = [w \in Workers |-> <<>>]
    /\ wboard = [w \in Workers |-> Board(<<1, 1>>)]
    /\ werr = [w \in Workers |-> NoException]
    /\ logs = [w \in Workers |-> <<>>]
    /\ reported = <<>>
    /\ startBoard = Board(<<1, 1>>)
    /\ aborted = {}
    /\ viewer = FALSE
    /\ BoardIdle
    /\ VMIdle
    /\ LinkIdle

SpecWire == WireInit /\ [][Next]_vars

\* the messages a step adds to a queue
C23_Added(before, after) ==
    {after[j] : j \in (Len(before) + 1)..Len(after)}

\* the caller read a message of worker w that is no LOG, OK or FAIL
C23_CallerDied(w) ==
    /\ nread[w] > 0
    /\ emitted[w][nread[w]][1] \notin {"LOG", "OK", "FAIL"}

\* C23: the GUI puts only START and EXIT messages, a worker only LOG, OK
\* and FAIL messages.  A worker whose first message is neither START nor
\* EXIT stops with an AssertionError, having taken no program and put no
\* answer; a caller that meets a message that is none of LOG, OK, FAIL
\* stops polling: the callback arms no timer, ends no run and reports
\* nothing, and nothing more is read from that queue.
C23_Wire ==
    [][\A w \in Workers :
        /\ \A msg \in C23_Added(sent[w], sent'[w]) :
               msg[1] \in {"START", "EXIT"}
        /\ \A msg \in C23_Added(emitted[w], emitted'[w]) :
               msg[1] \in {"LOG", "OK", "FAIL"}
        /\ nrecv'[w] # nrecv[w] =>
               /\ wpc[w] = "wait"
               /\ nrecv'[w] = 1
               /\ sent[w][1][1] \notin {"START", "EXIT"} =>
                      /\ wpc'[w] = "crashed"
                      /\ werr'[w].cls = "AssertionError"
                      /\ wop'[w] = <<>>
                      /\ emitted'[w] = emitted[w]
        /\ wpc[w] = "crashed" => /\ wpc'[w] = "crashed"
                                 /\ emitted'[w] = emitted[w]
                                 /\ nrecv'[w] = nrecv[w]
        /\ (~C23_CallerDied(w) /\ C23_CallerDied(w)') =>
               /\ timers' = timers - 1
               /\ UNCHANGED <<running, run, board1, reported, nworkers, wpc>>
        /\ C23_CallerDied(w) => nread'[w] = nread[w]
    ]_vars

\* a worker has crashed on a foreign first message and the caller has
\* stopped on a foreign answer
C23_Witness ==
    /\ wpc[1] = "crashed"
    /\ werr[1].cls = "AssertionError"
    /\ C23_CallerDied(1)
    /\ running
    /\ timers = 0


(***************************************************************************)
(* SpecEnumLoop: repeatWith over the enumerated types, run by the stack    *)
(* machine, which executes the instruction at ip as long as there is one.  *)
(***************************************************************************)
\* the constant naming an enumerated value (BUILTINS, gbs_builtins.py 642-651)
ConstantToken(value) ==
    CASE value = BoolV(FALSE) -> FalseTok
      [] value = BoolV(TRUE) -> TrueTok
      [] value = DirV(0) -> <<"N", "o", "r", "t", "h">>
      [] value = DirV(1) -> <<"E", "a", "s", "t">>
      [] value = DirV(2) -> <<"S", "o", "u", "t", "h">>
      [] value = DirV(3) -> <<"W", "e", "s", "t">>
      [] value.t = "Color" -> <<"C", "o", "l", "o", "r", DigitChar(value.v)>>

\* repeatWith i in lower..Probe(upper) { Visit(i) }
EnumRepeatWithTree(lower, upper, annot) ==
    [kind |-> "repeatWith",
     index |-> "i",
     lower |-> Lit(ConstantToken(lower)),
     upper |-> ProbeTree(Lit(ConstantToken(upper))),
     index_type_annotation |-> annot,
     body |-> [kind |-> "block",
               cmds |-> <<[kind |-> "procCall", name |-> "Visit",
                           args |-> <<[kind |-> "varName", name |-> "i"]>>]>>]]

EnumTypes == {Bools, Colors, Dirs}

EnumLoopInit ==
    /\ \E type \in EnumTypes :
        \E lower \in type, upper \in type, annotated \in BOOLEAN :
            LET annot == IF annotated THEN poly_typeof(lower) ELSE "none" IN
            /\ loopIn = [lower |-> lower, upper |-> upper, annot |-> annot]
            /\ code = compile_commands(
                          <<EnumRepeatWithTree(lower, upper, annot)>>,
                          CompilerState).code
    /\ ip = 1
    /\ stack = <<>>
    /\ env = <<>>
    /\ trace = <<>>
    /\ vmerr = NoError
    /\ BoardIdle
    /\ HarnessIdle
    /\ LinkIdle

SpecEnumLoop == EnumLoopInit /\ [][VMStep]_vars /\ WF_vars(VMStep)

\* the loop is over bounds with ord(L) <= ord(U)
C24_Ordered == poly_ord(loopIn.lower).list[1].int <= poly_ord(loopIn.upper).list[1].int

\* the values of the type from L to U in order
C24_Range ==
    LET L == poly_ord(loopIn.lower).list[1].int
        U == poly_ord(loopIn.upper).list[1].int
    IN  [k \in 1..(U - L + 1) |-> Val(loopIn.lower.t, L + k - 1)]

\* the code has run to its end; the upper bound was evaluated once, before
\* the body ran, and the body ran once for every value from L to U
C24_Done ==
    /\ Finished
    /\ stack = <<>>
    /\ trace = <<loopIn.upper>> \o C24_Range

\* C24: repeatWith i in L..U over Bool, Color or Dir with ord(L) <= ord(U)
\* terminates: the upper bound is evaluated once, before the first
\* iteration, the body then runs exactly ord(U) - ord(L) + 1 times, with i
\* going from L to U, and the code runs to its end, also when U is the
\* last value of its type.
C24_EnumLoopTerminates == C24_Ordered ~> C24_Done

\* a loop from Color1 up to the last color has run to its end
C24_Witness ==
    /\ Finished
    /\ loopIn.lower = ColorV(1)
    /\ loopIn.upper = ColorV(3)
    /\ trace = <<ColorV(3), ColorV(1), ColorV(2), ColorV(3)>>


(***************************************************************************)
(* Properties of the labels and the stack of compiled code (SpecProg).     *)
(***************************************************************************)
\* the labels the jumps of the code name
C25_Targets ==
    {code[k].label :
        k \in {j \in 1..Len(code) :
                  code[j].op \in {"jump", "jumpIfFalse", "jumpIfNotIn"}}}

\* the places of the code where label L is defined
C25_Definitions(L) ==
    {k \in 1..Len(code) : code[k].op = "label" /\ code[k].label = L}

\* C25: in the code of a routine every label a jump, jumpIfFalse or
\* jumpIfNotIn names is defined by exactly one label instruction.
C25_LabelsDefined ==
    \A L \in C25_Targets : Cardinality(C25_Definitions(L)) = 1


\* C26: a compiled expression leaves the stack one deeper, a call of a
\* function with n results n deeper, and a compiled command leaves its
\* depth as it was: when the code of an expression has run to its end the
\* stack holds its one value (the n results of the call), and the stack is
\* empty whenever the first command of a routine is over and when the
\* routine is.
C26_StackDiscipline ==
    /\ (Finished /\ loopIn.form \in {"expr", "poly"}) => Len(stack) = 1
    /\ (Finished /\ loopIn.form = "call") => Len(stack) = loopIn.nresults
    /\ (Finished /\ loopIn.form \in {"case", "tuple", "cmds"}) => stack = <<>>
    /\ (loopIn.form = "cmds" /\ ip = loopIn.second) => stack = <<>>

\* an if with else followed by a while loop has run to its end
C26_Witness ==
    /\ Finished
    /\ loopIn.form = "cmds"
    /\ loopIn.cmds[1].kind = "if"
    /\ loopIn.cmds[1].else # NoElse
    /\ loopIn.cmds[2].kind = "while"
    /\ trace = <<IntV(1), IntV(3)>>
    /\ stack = <<>>


(***************************************************************************)
(* SpecViewer: the GUI and its workers when the user may also close the    *)
(* window of the board viewer.  The timer of Tk calls a pending            *)
(* gobstones_continue_run, and a worker process runs on.                   *)
(***************************************************************************)
ViewerNext ==
    \/ Next
    \/ CloseViewer

SpecViewer ==
    Init /\ [][ViewerNext]_vars /\ WF_vars(ContinueRun) /\ WF_vars(WorkerStep)

\* the worker of the active run has put its OK or FAIL
C27_Answered ==
    /\ running
    /\ run.running
    /\ ~destroyed
    /\ \E j \in 1..Len(emitted[run.worker]) :
           emitted[run.worker][j][1] \in {"OK", "FAIL"}

\* the run is over, or the window of the application is gone
C27_Ended == ~running \/ destroyed

\* C27: when the worker of the active run has put OK or FAIL, the polling
\* callback gets to it and the run ends, whether the user aborts or not.
C27_AnswerEndsRun == C27_Answered ~> C27_Ended


(***************************************************************************)
(* Properties of the runs of the GUI (Spec).                               *)
(***************************************************************************)
\* the workers that took a START and are at work on it
C28_Executing ==
    {w \in Workers : wpc[w] \in {"decode", "parse", "lint", "compile", "interp"}}

\* C28: at most one run is active.  While a run is active no START is put
\* on any queue, a worker is provisioned only by the step that ends the
\* run, and the board changes only with the run's end; a step that leaves
\* the run active leaves the record of the run as it is and one poll
\* callback pending.  At most one worker is at work on a program at any
\* moment.
C28_OneRun ==
    [][/\ running =>
            /\ \A w \in Workers :
                   \A msg \in C23_Added(sent[w], sent'[w]) : msg[1] # "START"
            /\ nworkers' # nworkers => ~running'
            /\ board1' # board1 => ~running'
            /\ running' => /\ run' = run
                           /\ timers' <= 1
       /\ Cardinality(C28_Executing') <= 1
    ]_vars

\* a second run is active: its worker is interpreting, the first is done
C28_Witness ==
    /\ running
    /\ run.running
    /\ run.worker = 2
    /\ wpc[2] = "interp"
    /\ wpc[1] = "done"
    /\ timers = 1


(***************************************************************************)
(* SpecLifetime: the GUI and its workers from the start of the             *)
(* application to its end: the timer calls a pending                       *)
(* gobstones_continue_run, a worker process runs on, and the window of     *)
(* the application is closed in the end.                                   *)
(***************************************************************************)
SpecLifetime ==
    /\ Init
    /\ [][Next]_vars
    /\ WF_vars(ContinueRun)
    /\ WF_vars(WorkerStep)
    /\ WF_vars(Destroy)

\* every worker provisioned so far has stopped: it returned from run (after
\* its one START or on EXIT), died, or its process was terminated
C29_AllStopped ==
    \A w \in 1..nworkers : wpc[w] \in {"done", "crashed", "killed"}

\* C29: no worker is orphaned: in the end every provisioned worker has
\* stopped, none is left waiting for a first message that never arrives.
C29_NoOrphan == <>C29_AllStopped


(***************************************************************************)
(* Properties of opposite and unary minus (SpecBuiltin).                   *)
(***************************************************************************)
\* C30: opposite and unary- work for Dir and Int only: a direction gives
\* the direction of ordinal (ord + 2) mod 4, an integer its negation, and
\* any other argument (a Bool, a Color, a list) fails with the
\* GbsRuntimeException 'The argument to opposite should be a direction or
\* an integer'; the board is unchanged in every case.
C30_Opposite ==
    [][lastCall'.name \in {"opposite", "unary-"} =>
        LET v == lastCall'.args[1]
            out == lastCall'.out
        IN  /\ gboard' = gboard
            /\ CASE v.t = "Dir" ->
                      /\ out.err = NoError
                      /\ out.value.t = "Dir"
                      /\ out.value.v = (v.v + 2) % 4
                 [] v.t = "Int" ->
                      /\ out.err = NoError
                      /\ out.value.t = "Int"
                      /\ out.value.v = 0 - v.v
                 [] OTHER ->
                      /\ out.err.cls = "GbsRuntimeException"
                      /\ out.err.text =
                           "The argument to opposite should be a direction or an integer"
      ]_vars

=============================================================================
